---- MODULE Spec2Model ----
(***************************************************************************)
(* A model of the programs of satch.  First the online DRUP proof checker  *)
(* (src/catch.c): the checker object, its clause objects and their         *)
(* intrusive watch lists are modelled field by field; every API function   *)
(* is one action.  Then the DIMACS parser and the XOR encoding of the      *)
(* front end (src/main.c), the radix sort (src/rsort.h), the feature       *)
(* generator (src/features/generate.c) and the generator of configuration  *)
(* lists (src/gencombi.c), each with a specification of its own.           *)
(***************************************************************************)
EXTENDS Integers, Sequences, FiniteSets, TLC

(***************************************************************************)
(* Bounds of the model.                                                    *)
(***************************************************************************)
\* At most MaxClauses clause objects exist at a time.
MaxClauses == 3
\* A caller that is free in what it calls commits at most MaxCommits clauses
\* (original, learned, delete) on a consistent checker.
MaxCommits == 3
\* The garbage collection intervals of the checker of a free caller are
\* 2..MaxInterval: the interval of the code scaled down, so that garbage
\* collections happen within MaxCommits commits.
MaxInterval == 3

GARBAGE_COLLECTION_INTERVAL == 10000

\* The value of an invalid literal ('UINT_MAX' in the code).
INVALID == -1

VARIABLES
  size,            \* checker->size: number of allocated literals
  inconsistent,    \* checker->inconsistent
  marks,           \* checker->marks[0..size-1]
  values,          \* checker->values[0..size-1] in {-1,0,1}
  watches,         \* checker->watches[0..size-1]: clause object or 0 (null)
  trail,           \* checker->trail
  clause,          \* checker->clause: the pending clause
  new_units,       \* checker->new_units
  wait_to_collect_satisfied_clauses,
  original, learned, deleted,
  collected, collections,
  clauses, remained,
  leak_checking,
  heap,            \* the clause objects: heap[c] for c in 1..MaxClauses
  status,          \* "ok", "released" or the message of the fatal error
  collection_interval,  \* GARBAGE_COLLECTION_INTERVAL of the build
  models,          \* history: the assignments satisfying all original clauses
  script,          \* the calls the caller makes, or Free
  pc               \* the number of calls of the script made

\* The other programs, each a record of the globals and locals of its run.
VARIABLES
  parser,          \* src/main.c: 'parse' and what it hands to the solver
  encoder,         \* src/main.c: one call of 'encode_xor'
  sorter,          \* src/rsort.h: one expansion of 'RSORT'
  generator,       \* src/features/generate.c: one run of 'main'
  combi            \* src/gencombi.c: one run of 'main'

\* The state of the checker and of its caller.
checker_vars ==
  << size, inconsistent, marks, values, watches, trail, clause,
     new_units, wait_to_collect_satisfied_clauses, original, learned,
     deleted, collected, collections, clauses, remained,
     leak_checking, heap, status, collection_interval, models,
     script, pc >>

vars == << checker_vars, parser, encoder, sorter, generator, combi >>

\* A program that does not run.
NotRunning == [ status |-> "not running" ]

(***************************************************************************)
(* Literals.                                                               *)
(***************************************************************************)
LITERAL(idx) == 2 * idx

NOT(lit) == IF lit % 2 = 0 THEN lit + 1 ELSE lit - 1

SIGN(lit) == lit % 2

INDEX(lit) == lit \div 2

checker_export(ilit) ==
  LET eidx == INDEX(ilit) + 1
  IN IF SIGN(ilit) = 1 THEN 0 - eidx ELSE eidx

abs(elit) == IF elit < 0 THEN 0 - elit ELSE elit

(***************************************************************************)
(* The machine state the functions of catch.c work on: the fields of       *)
(* 'struct checker', the clause objects and the fatal error raised.        *)
(***************************************************************************)
Machine ==
  [ size |-> size, inconsistent |-> inconsistent, marks |-> marks,
    values |-> values, watches |-> watches, trail |-> trail,
    clause |-> clause, new_units |-> new_units,
    wait |-> wait_to_collect_satisfied_clauses,
    original |-> original, learned |-> learned, deleted |-> deleted,
    collected |-> collected, collections |-> collections,
    clauses |-> clauses, remained |-> remained,
    leak_checking |-> leak_checking, heap |-> heap, status |-> status ]

Becomes(m) ==
  /\ size' = m.size
  /\ inconsistent' = m.inconsistent
  /\ marks' = m.marks
  /\ values' = m.values
  /\ watches' = m.watches
  /\ trail' = m.trail
  /\ clause' = m.clause
  /\ new_units' = m.new_units
  /\ wait_to_collect_satisfied_clauses' = m.wait
  /\ original' = m.original
  /\ learned' = m.learned
  /\ deleted' = m.deleted
  /\ collected' = m.collected
  /\ collections' = m.collections
  /\ clauses' = m.clauses
  /\ remained' = m.remained
  /\ leak_checking' = m.leak_checking
  /\ heap' = m.heap
  /\ status' = m.status

\* A clause object that is not allocated (never allocated, or freed).
FreeClause == [ free |-> TRUE, next |-> << 0, 0 >>, literals |-> << >> ]

\* checker_fatal_error and checker_failed: the process aborts.
checker_failed(m, msg) == [ m EXCEPT !.status = msg ]

(***************************************************************************)
(* checker_import: grow the arrays to hold the literal and its negation.   *)
(***************************************************************************)
RECURSIVE Doubled(_, _)
Doubled(new_size, required_size) ==
  IF required_size > new_size THEN Doubled(2 * new_size, required_size)
  ELSE new_size

\* A RESIZE that allocates the new size and copies nothing.
calloc_only(array, old_size, new_size) == [ i \in 0..(new_size - 1) |-> 0 ]

\* RESIZE: calloc of the new size and memcpy of the old content.
RESIZE(array, old_size, new_size) ==
  [ i \in 0..(new_size - 1) |-> IF i < old_size THEN array[i] ELSE 0 ]

checker_import(m, elit) ==
  LET eidx == abs(elit)
      iidx == eidx - 1
      ilit == LITERAL(iidx) + (IF elit < 0 THEN 1 ELSE 0)
      required_size == (IF ilit % 2 = 0 THEN ilit + 1 ELSE ilit) + 1
      old_size == m.size
      new_size == Doubled(IF old_size # 0 THEN 2 * old_size ELSE 1,
                          required_size)
  IN IF required_size > old_size
     THEN [ m |-> [ m EXCEPT !.marks = RESIZE(m.marks, old_size, new_size),
                             !.values = RESIZE(m.values, old_size, new_size),
                             !.watches = RESIZE(m.watches, old_size, new_size),
                             !.size = new_size ],
            ilit |-> ilit ]
     ELSE [ m |-> m, ilit |-> ilit ]

(***************************************************************************)
(* checker_trivial_clause and checker_clear_clause.                        *)
(***************************************************************************)
\* The loop of checker_trivial_clause: 'p' is the index of the literal read,
\* 'kept' the literals written through 'q'.
RECURSIVE trivial_loop(_, _, _)
trivial_loop(m, p, kept) ==
  IF p > Len(m.clause)
  THEN [ m |-> [ m EXCEPT !.clause = kept ], trivial |-> FALSE ]
  ELSE LET lit == m.clause[p]
       IN IF m.values[lit] > 0
          THEN [ m |-> [ m EXCEPT !.clause = kept ], trivial |-> TRUE ]
          ELSE IF m.marks[lit] # 0
          THEN trivial_loop(m, p + 1, kept)
          ELSE IF m.marks[NOT(lit)] # 0
          THEN [ m |-> [ m EXCEPT !.clause = kept ], trivial |-> TRUE ]
          ELSE trivial_loop([ m EXCEPT !.marks[lit] = 1 ], p + 1,
                            Append(kept, lit))

\* A checker_trivial_clause that never finds the clause trivial.
never_trivial(m) ==
  [ m |-> trivial_loop(m, 1, << >>).m, trivial |-> FALSE ]

\* A checker_trivial_clause that skips a clause with any assigned literal,
\* root-level false ones included.
trivial_when_assigned(m) ==
  IF \E i \in 1..Len(m.clause) : m.values[m.clause[i]] # 0
  THEN [ m |-> [ m EXCEPT !.clause = << >> ], trivial |-> TRUE ]
  ELSE trivial_loop(m, 1, << >>)

checker_trivial_clause(m) == trivial_loop(m, 1, << >>)

\* A clearing of the temporary clause that leaves its literals marked.
clear_stack_only(m) == [ m EXCEPT !.clause = << >> ]

checker_clear_clause(m) ==
  [ m EXCEPT !.marks = [ l \in DOMAIN m.marks |->
                           IF \E i \in 1..Len(m.clause) : m.clause[i] = l
                           THEN 0 ELSE m.marks[l] ],
             !.clause = << >> ]

(***************************************************************************)
(* Assignment, propagation and backtracking.                               *)
(***************************************************************************)
\* An assignment that leaves the value of the negation as it is.
assign_one_sided(m, lit) ==
  [ m EXCEPT !.values[lit] = 1, !.trail = Append(m.trail, lit) ]

checker_assign(m, lit) ==
  [ m EXCEPT !.values[NOT(lit)] = -1,
             !.values[lit] = 1,
             !.trail = Append(m.trail, lit) ]

\* A link 'struct clause **p' is the head of a watch list, [c |-> 0,
\* i |-> lit], or the field next[i] of the clause object c.
WatchLink(lit) == [ c |-> 0, i |-> lit ]

NextLink(c, pos) == [ c |-> c, i |-> pos ]

Deref(m, p) ==
  IF p.c = 0 THEN m.watches[p.i] ELSE m.heap[p.c].next[p.i + 1]

SetLink(m, p, c) ==
  IF p.c = 0 THEN [ m EXCEPT !.watches[p.i] = c ]
  ELSE [ m EXCEPT !.heap[p.c].next[p.i + 1] = c ]

\* A search for a replacement that finds none.
no_replacement(m, literals, r) == 0

\* The search for a replacement in 'literals + 2 .. end': the index of the
\* first literal that is not false, or 0.
RECURSIVE find_replacement(_, _, _)
find_replacement(m, literals, r) ==
  IF r > Len(literals) THEN 0
  ELSE IF m.values[literals[r]] >= 0 THEN r
  ELSE find_replacement(m, literals, r + 1)

\* The branch 'if (replacement_value >= 0)': watch the replacement instead.
watch_replacement(m, c, p, pos, r, not_lit) ==
  LET replacement == m.heap[c].literals[r]
      m1 == [ m EXCEPT !.heap[c].literals[r] = not_lit ]
      m2 == SetLink(m1, p, m1.heap[c].next[pos + 1])
      m3 == [ m2 EXCEPT !.heap[c].literals[pos + 1] = replacement ]
      m4 == [ m3 EXCEPT !.heap[c].next[pos + 1] = m3.watches[replacement] ]
  IN [ m4 EXCEPT !.watches[replacement] = c ]

\* The inner loop 'while ((c = *p))' of checker_propagate.
RECURSIVE propagate_watches(_, _, _)
propagate_watches(m, not_lit, p) ==
  LET c == Deref(m, p)
  IN IF c = 0 THEN [ m |-> m, ok |-> TRUE ]
     ELSE
       LET literals == m.heap[c].literals
           pos == IF literals[2] = not_lit THEN 1 ELSE 0
           other == literals[(1 - pos) + 1]
           other_value == m.values[other]
           r == find_replacement(m, literals, 3)
       IN IF other_value > 0
          THEN propagate_watches(m, not_lit, NextLink(c, pos))
          ELSE IF r # 0
          THEN propagate_watches(watch_replacement(m, c, p, pos, r, not_lit),
                                 not_lit, p)
          ELSE IF other_value < 0
          THEN [ m |-> m, ok |-> FALSE ]
          ELSE propagate_watches(checker_assign(m, other), not_lit,
                                 NextLink(c, pos))

\* The outer loop 'while (propagate < SIZE_STACK (checker->trail))'.
RECURSIVE propagate_trail(_, _)
propagate_trail(m, propagate) ==
  IF propagate >= Len(m.trail) THEN [ m |-> m, ok |-> TRUE ]
  ELSE LET lit == m.trail[propagate + 1]
           not_lit == NOT(lit)
           res == propagate_watches(m, not_lit, WatchLink(not_lit))
       IN IF res.ok THEN propagate_trail(res.m, propagate + 1) ELSE res

\* A propagation that visits no clause and finds no conflict.
propagate_nothing(m) == [ m |-> m, ok |-> TRUE ]

checker_propagate(m) == propagate_trail(m, 0)

\* A checker_backtrack that unassigns the last literal of the trail only.
backtrack_last_only(m) ==
  IF m.trail = << >> THEN m
  ELSE [ m EXCEPT !.trail = << >>,
                  !.values[m.trail[Len(m.trail)]] = 0,
                  !.values[NOT(m.trail[Len(m.trail)])] = 0 ]

\* A checker_backtrack that clears the trail and unassigns nothing.
backtrack_trail_only(m) == [ m EXCEPT !.trail = << >> ]

RECURSIVE checker_backtrack(_)
checker_backtrack(m) ==
  IF m.trail = << >> THEN m
  ELSE LET lit == m.trail[Len(m.trail)]
       IN checker_backtrack(
            [ m EXCEPT !.trail = SubSeq(m.trail, 1, Len(m.trail) - 1),
                       !.values[lit] = 0,
                       !.values[NOT(lit)] = 0 ])

(***************************************************************************)
(* Garbage collection of root-level satisfied clauses.                     *)
(***************************************************************************)
\* The loop 'while ((c = *p))' of checker_disconnect_second_watch.  The
\* assignment 'c->next[1] = 0' is the one of builds with assertions.
RECURSIVE disconnect_loop(_, _, _)
disconnect_loop(m, lit, p) ==
  LET c == Deref(m, p)
  IN IF c = 0 THEN m
     ELSE IF m.heap[c].literals[2] = lit
     THEN LET m1 == SetLink(m, p, m.heap[c].next[2])
          IN disconnect_loop([ m1 EXCEPT !.heap[c].next[2] = 0 ], lit, p)
     ELSE disconnect_loop(m, lit, NextLink(c, 0))

checker_disconnect_second_watch(m, lit) ==
  disconnect_loop(m, lit, WatchLink(lit))

\* A reconnection of the second watches that links nothing.
reconnect_nothing(m, lit) == m

\* The loop 'for (c = watches[lit]; c; c = next)' of
\* checker_reconnect_second_watch.
RECURSIVE reconnect_loop(_, _, _)
reconnect_loop(m, lit, c) ==
  IF c = 0 THEN m
  ELSE IF m.heap[c].literals[1] = lit
  THEN LET other == m.heap[c].literals[2]
           m1 == [ m EXCEPT !.heap[c].next[2] = m.watches[other] ]
           m2 == [ m1 EXCEPT !.watches[other] = c ]
       IN reconnect_loop(m2, lit, m2.heap[c].next[1])
  ELSE reconnect_loop(m, lit, m.heap[c].next[2])

checker_reconnect_second_watch(m, lit) ==
  reconnect_loop(m, lit, m.watches[lit])

\* 'for (size_t lit = 0; lit < checker->size; lit++)'.
RECURSIVE disconnect_all_from(_, _)
disconnect_all_from(m, lit) ==
  IF lit >= m.size THEN m
  ELSE disconnect_all_from(checker_disconnect_second_watch(m, lit), lit + 1)

\* A disconnection that leaves every second watch linked.
disconnect_none(m) == m

checker_disconnect_all_second_watches(m) == disconnect_all_from(m, 0)

RECURSIVE reconnect_all_from(_, _)
reconnect_all_from(m, lit) ==
  IF lit >= m.size THEN m
  ELSE reconnect_all_from(checker_reconnect_second_watch(m, lit), lit + 1)

checker_reconnect_all_second_watches(m) == reconnect_all_from(m, 0)

\* '~(size_t)0', cut to the largest number TLC represents: no counter of
\* a run of the model comes near either value.
MAX_SIZE_T == 2147483647

\* A scheduling that takes the largest wait one collection too early.
schedule_saturated_early(m) ==
  [ m EXCEPT !.new_units = 0,
             !.wait = IF MAX_SIZE_T \div collection_interval <= m.collections
                      THEN MAX_SIZE_T
                      ELSE m.collections * collection_interval ]

checker_schedule_next_garbage_collection(m) ==
  [ m EXCEPT !.new_units = 0,
             !.wait = IF MAX_SIZE_T \div collection_interval < m.collections
                      THEN MAX_SIZE_T
                      ELSE m.collections * collection_interval ]

\* A test of the clause object that takes a false literal for a true one.
some_literal_assigned(m, c) ==
  \E i \in 1..Len(m.heap[c].literals) : m.values[m.heap[c].literals[i]] # 0

\* A test of the clause object that looks at its first watch only.
first_watch_true(m, c) == m.values[m.heap[c].literals[1]] > 0

\* 'satisfied': some literal of the clause object is assigned true.
Satisfied(m, c) ==
  \E i \in 1..Len(m.heap[c].literals) : m.values[m.heap[c].literals[i]] > 0

\* A freeing of the clause object that counts it once more.
free_still_counted(m, c) ==
  [ m EXCEPT !.heap[c] = FreeClause, !.clauses = @ + 1 ]

free(m, c) == [ m EXCEPT !.heap[c] = FreeClause ]

\* The loop 'while ((c = *p))' of checker_flush_satisfied_clauses; 'n' is
\* the local counter 'collected'.
RECURSIVE flush_loop(_, _, _)
flush_loop(m, p, n) ==
  LET c == Deref(m, p)
  IN IF c = 0 THEN [ m |-> m, collected |-> n ]
     ELSE IF Satisfied(m, c)
     THEN LET m1 == SetLink(m, p, m.heap[c].next[1])
              m2 == [ m1 EXCEPT !.clauses = @ - 1 ]
          IN flush_loop(free(m2, c), p, n + 1)
     ELSE flush_loop(m, NextLink(c, 0), n)

checker_flush_satisfied_clauses(m, lit) == flush_loop(m, WatchLink(lit), 0)

RECURSIVE flush_all_from(_, _, _)
flush_all_from(m, lit, n) ==
  IF lit >= m.size THEN [ m EXCEPT !.collected = @ + n ]
  ELSE LET res == checker_flush_satisfied_clauses(m, lit)
       IN flush_all_from(res.m, lit + 1, n + res.collected)

checker_flush_all_satisfied_clauses(m) == flush_all_from(m, 0, 0)

checker_garbage_collection(m) ==
  LET m1 == [ m EXCEPT !.collections = @ + 1 ]
      m2 == checker_disconnect_all_second_watches(m1)
      m3 == checker_flush_all_satisfied_clauses(m2)
      m4 == checker_reconnect_all_second_watches(m3)
  IN checker_schedule_next_garbage_collection(m4)

(***************************************************************************)
(* checker_add_clause.                                                     *)
(***************************************************************************)
\* The first loop of checker_add_clause: the non-false literals found are
\* swapped to the front; 'p' and 'q' are indices into the pending clause.
RECURSIVE move_non_false(_, _, _, _, _, _)
move_non_false(lits, vals, p, q, non_false, unit) ==
  IF p > Len(lits)
  THEN [ clause |-> lits, non_false |-> non_false, unit |-> unit ]
  ELSE LET lit == lits[p]
       IN IF vals[lit] < 0
          THEN move_non_false(lits, vals, p + 1, q, non_false, unit)
          ELSE LET swapped == IF p # q
                              THEN [ lits EXCEPT ![p] = lits[q], ![q] = lit ]
                              ELSE lits
                   new_unit == IF non_false = 0 THEN lit ELSE unit
               IN IF non_false + 1 > 1
                  THEN [ clause |-> swapped, non_false |-> non_false + 1,
                         unit |-> new_unit ]
                  ELSE move_non_false(swapped, vals, p + 1, q + 1,
                                      non_false + 1, new_unit)

\* malloc: the lowest free clause object, or 0 when memory is exhausted.
malloc(m) ==
  IF \E c \in DOMAIN m.heap : m.heap[c].free
  THEN CHOOSE c \in DOMAIN m.heap :
         /\ m.heap[c].free
         /\ \A d \in DOMAIN m.heap : m.heap[d].free => c <= d
  ELSE 0

\* A watching of the new clause that links it in front of the first watch
\* list only and drops the rest of the second one.
watch_clause_first_only(m, c, lit, other) ==
  IF c = 0 THEN checker_failed(m, "out-of-memory")
  ELSE [ m EXCEPT !.clauses = @ + 1,
                  !.heap[c] = [ free |-> FALSE,
                                next |-> << m.watches[lit], 0 >>,
                                literals |-> m.clause ],
                  !.watches[lit] = c,
                  !.watches[other] = c ]

\* The branch 'else' of checker_add_clause: allocate and watch the clause.
watch_clause(m, c, lit, other) ==
  IF c = 0 THEN checker_failed(m, "out-of-memory")
  ELSE [ m EXCEPT !.clauses = @ + 1,
                  !.heap[c] = [ free |-> FALSE,
                                next |-> << m.watches[lit], m.watches[other] >>,
                                literals |-> m.clause ],
                  !.watches[lit] = c,
                  !.watches[other] = c ]

\* An add that stores no second clause with the literals of a stored one.
watch_deduplicated(m) ==
  IF \E c \in DOMAIN m.heap :
       ~m.heap[c].free /\ m.heap[c].literals = m.clause
  THEN m
  ELSE watch_clause(m, malloc(m), m.clause[1], m.clause[2])

watch_new_clause(m) == watch_clause(m, malloc(m), m.clause[1], m.clause[2])

\* The branch 'non_false == 1': assign and propagate the unit.
\* 'if (checker_propagate (checker)) CLEAR_STACK (checker->trail); else
\* checker->inconsistent = 1;'.
after_unit(res) ==
  IF res.ok THEN [ res.m EXCEPT !.trail = << >> ]
  ELSE [ res.m EXCEPT !.inconsistent = TRUE ]

add_unit(m, unit) ==
  after_unit(checker_propagate(
    [ checker_assign(m, unit) EXCEPT !.new_units = @ + 1 ]))

\* 'if (!non_false) ... else if (non_false == 1) ... else ...'.
add_by_non_false(m, non_false, unit) ==
  IF non_false = 0 THEN [ m EXCEPT !.inconsistent = TRUE ]
  ELSE IF non_false = 1 THEN add_unit(m, unit)
  ELSE watch_new_clause(m)

\* 'if (checker->wait_to_collect_satisfied_clauses) --...'.
decrement_wait(m) == IF m.wait # 0 THEN [ m EXCEPT !.wait = @ - 1 ] ELSE m

\* A test for the garbage collection that does not ask for new units.
collect_when_waited(m) ==
  IF ~m.inconsistent /\ m.wait = 0 THEN checker_garbage_collection(m) ELSE m

\* 'if (!checker->inconsistent && checker->new_units && !checker->wait...)'.
collect_if_due(m) ==
  IF ~m.inconsistent /\ m.new_units # 0 /\ m.wait = 0
  THEN checker_garbage_collection(m)
  ELSE m

\* The end of checker_add_clause, which an out-of-memory error does not
\* reach.
schedule_and_collect(m) ==
  IF m.status # "ok" THEN m ELSE collect_if_due(decrement_wait(m))

\* An add that keeps the pending clause as passed, its non-false literals
\* not moved to the front.
add_unmoved(m, moved) ==
  schedule_and_collect(add_by_non_false(m, moved.non_false, moved.unit))

add_moved(m, moved) ==
  schedule_and_collect(
    add_by_non_false([ m EXCEPT !.clause = moved.clause ],
                     moved.non_false, moved.unit))

checker_add_clause(m) ==
  add_moved(m, move_non_false(m.clause, m.values, 1, 1, 0, INVALID))

(***************************************************************************)
(* checker_internal_delete_clause.                                         *)
(***************************************************************************)
\* 'while ((d = *dp) != c)': the link to 'c' in the watch list of 'other'.
RECURSIVE find_other_link(_, _, _, _)
find_other_link(m, c, other, dp) ==
  LET d == Deref(m, dp)
  IN IF d = c THEN dp
     ELSE find_other_link(m, c, other,
            NextLink(d, IF m.heap[d].literals[2] = other THEN 1 ELSE 0))

\* A match by the marks alone, the sizes not compared.
Matches_marks_only(m, c) ==
  \A i \in 1..Len(m.heap[c].literals) : m.marks[m.heap[c].literals[i]] # 0

\* The clause object has the size of the pending clause and all its
\* literals are marked.
Matches(m, c) ==
  /\ Len(m.heap[c].literals) = Len(m.clause)
  /\ \A i \in 1..Len(m.heap[c].literals) : m.marks[m.heap[c].literals[i]] # 0

\* Unlink the matching clause 'c' found through the link 'cp' in the watch
\* list of 'lit', and free it.
\* '*dp = c->next[!cpos]; checker->clauses--; free (c);'.
unlink_other(m, c, cpos, dp) ==
  free([ SetLink(m, dp, m.heap[c].next[(1 - cpos) + 1])
           EXCEPT !.clauses = @ - 1 ], c)

find_and_unlink_other(m, c, cpos, other) ==
  unlink_other(m, c, cpos, find_other_link(m, c, other, WatchLink(other)))

\* '*cp = *cnext;' and the removal of the other watch.
unlink_at(m, cp, c, cpos) ==
  find_and_unlink_other(SetLink(m, cp, m.heap[c].next[cpos + 1]), c, cpos,
                        m.heap[c].literals[(1 - cpos) + 1])

unlink_and_free(m, lit, cp, c) ==
  unlink_at(m, cp, c, IF m.heap[c].literals[2] = lit THEN 1 ELSE 0)

\* The loop 'for (cp = watches + lit; (c = *cp); cp = cnext)'.
RECURSIVE delete_in_list(_, _, _)
delete_in_list(m, lit, cp) ==
  LET c == Deref(m, cp)
  IN IF c = 0 THEN [ m |-> m, found |-> FALSE ]
     ELSE IF Matches(m, c)
     THEN [ m |-> unlink_and_free(m, lit, cp, c), found |-> TRUE ]
     ELSE delete_in_list(m, lit,
            NextLink(c, IF m.heap[c].literals[2] = lit THEN 1 ELSE 0))

\* The loop over the literals of the pending clause.
RECURSIVE delete_from(_, _)
delete_from(m, i) ==
  IF i > Len(m.clause)
  THEN checker_failed(m, "clause requested to delete not found")
  ELSE LET res == delete_in_list(m, m.clause[i], WatchLink(m.clause[i]))
       IN IF res.found THEN res.m ELSE delete_from(m, i + 1)

checker_internal_delete_clause(m) == delete_from(m, 1)

(***************************************************************************)
(* check_clause_implied.                                                   *)
(***************************************************************************)
\* The loop over the literals of the pending clause.
RECURSIVE implied_loop(_, _), implied_after(_, _)
implied_loop(m, i) ==
  IF i > Len(m.clause) THEN [ m |-> m, failed |-> FALSE ]
  ELSE IF m.values[m.clause[i]] > 0 THEN [ m |-> m, failed |-> TRUE ]
  ELSE IF m.values[m.clause[i]] = 0
  THEN implied_after(
         checker_propagate(checker_assign(m, NOT(m.clause[i]))), i)
  ELSE implied_loop(m, i + 1)

\* The test of the result of the propagation inverted.
implied_after_inverted(res, i) ==
  IF res.ok THEN [ m |-> res.m, failed |-> TRUE ]
  ELSE implied_loop(res.m, i + 1)

\* 'if (!checker_propagate (checker)) failed = 1; if (failed) break;'.
implied_after(res, i) ==
  IF ~res.ok THEN [ m |-> res.m, failed |-> TRUE ]
  ELSE implied_loop(res.m, i + 1)

\* The end of a check that accepts every clause.
after_implied_unchecked(res) == checker_backtrack(res.m)

\* 'if (!failed) checker_failed (...); checker_backtrack (checker);'.
after_implied(res) ==
  IF ~res.failed THEN checker_failed(res.m, "learned clause not implied")
  ELSE checker_backtrack(res.m)

check_clause_implied(m) == after_implied(implied_loop(m, 1))

(***************************************************************************)
(* checker_release.                                                        *)
(***************************************************************************)
\* The loop 'while (c)' of checker_release_clauses.
RECURSIVE release_loop(_, _)
release_loop(m, c) ==
  IF c = 0 THEN m
  ELSE release_loop(
         free([ m EXCEPT !.remained = IF Satisfied(m, c) THEN @ ELSE @ + 1,
                         !.clauses = @ - 1 ], c),
         m.heap[c].next[1])

checker_release_clauses(m, c) ==
  release_loop(IF m.trail # << >> THEN checker_backtrack(m) ELSE m, c)

RECURSIVE release_all_from(_, _)
release_all_from(m, lit) ==
  IF lit >= m.size THEN m
  ELSE release_all_from(checker_release_clauses(m, m.watches[lit]), lit + 1)

checker_release_all_clauses(m) ==
  release_all_from(checker_disconnect_all_second_watches(m), 0)

\* 'if (checker->remained == 1) fatal_error ("exactly one clause remains");
\* else fatal_error ("%zu clauses remain", checker->remained);'.
leak_message(m) ==
  IF m.remained = 1 THEN "exactly one clause remains" ELSE "clauses remain"

\* A leak check that does not look at 'inconsistent'.
leak_check_despite_inconsistent(m) ==
  IF m.leak_checking /\ m.remained # 0
  THEN checker_failed(m, leak_message(m))
  ELSE [ m EXCEPT !.status = "released" ]

\* The leak check, and the release of the checker.
leak_check(m) ==
  IF ~m.inconsistent /\ m.leak_checking /\ m.remained # 0
  THEN checker_failed(m, leak_message(m))
  ELSE [ m EXCEPT !.status = "released" ]

checker_release(m) == leak_check(checker_release_all_clauses(m))

(***************************************************************************)
(* The API functions.                                                      *)
(***************************************************************************)
checker_enable_leak_checking(m) == [ m EXCEPT !.leak_checking = TRUE ]

\* 'PUSH (checker->clause, ilit)'.
push_literal(res) == [ res.m EXCEPT !.clause = Append(@, res.ilit) ]

checker_add_literal(m, elit) == push_literal(checker_import(m, elit))

\* 'if (!checker_trivial_clause (checker)) OPERATION (checker);' and
\* 'checker_clear_clause (checker)', which ends the three commits.
\* A fatal error ends the call; otherwise 'checker_clear_clause' does.
clear_unless_failed(m) ==
  IF m.status # "ok" THEN m ELSE checker_clear_clause(m)

add_unless_trivial(t) ==
  clear_unless_failed(IF ~t.trivial THEN checker_add_clause(t.m) ELSE t.m)

add_original_commit(m) == add_unless_trivial(checker_trivial_clause(m))

checker_add_original_clause(m) ==
  IF m.inconsistent THEN [ m EXCEPT !.clause = << >> ]
  ELSE add_original_commit([ m EXCEPT !.original = @ + 1 ])

add_if_implied(m) ==
  IF m.status # "ok" THEN m ELSE add_original_commit(m)

add_learned_commit(m) == add_if_implied(check_clause_implied(m))

checker_add_learned_clause(m) ==
  IF m.inconsistent THEN [ m EXCEPT !.clause = << >> ]
  ELSE add_learned_commit([ m EXCEPT !.learned = @ + 1 ])

delete_unless_trivial(t) ==
  clear_unless_failed(
    IF ~t.trivial THEN checker_internal_delete_clause(t.m) ELSE t.m)

delete_commit(m) == delete_unless_trivial(checker_trivial_clause(m))

\* A delete that does not look at 'inconsistent'.
delete_despite_inconsistent(m) ==
  delete_commit([ m EXCEPT !.deleted = @ + 1 ])

checker_delete_clause(m) ==
  IF m.inconsistent THEN [ m EXCEPT !.clause = << >> ]
  ELSE delete_commit([ m EXCEPT !.deleted = @ + 1 ])

(***************************************************************************)
(* The logical reading of clauses, for the history variable 'models'.      *)
(***************************************************************************)
\* The variables of the clauses the callers below use.
Variables == 1..3

\* An assignment is the set of the variables it makes true.
Assignments == SUBSET Variables

LitTrue(a, ilit) ==
  IF SIGN(ilit) = 1 THEN (INDEX(ilit) + 1) \notin a
  ELSE (INDEX(ilit) + 1) \in a

ClauseTrue(a, lits) == \E i \in 1..Len(lits) : LitTrue(a, lits[i])

(***************************************************************************)
(* The callers.  A call is << "literal", elit >>, << "original" >>,        *)
(* << "learned" >>, << "delete" >>, << "leak" >> or << "release" >>.       *)
(***************************************************************************)
\* The clauses a free caller passes, literal by literal (it may commit every
\* prefix of them as well): the clauses of the test scenarios, with
\* duplicate and clashing literals, permuted and of up to three literals.
Inputs ==
  { << 1, 2, 3 >>, << 3, 1, 2 >>, << 1, 1, 2 >>, << -1, 2 >>, << 1, -2 >>,
    << -1, -2 >>, << 2, 1 >>, << 1, -1 >>, << -2 >>, << -3 >> }

Prefixes ==
  UNION { { SubSeq(s, 1, n) : n \in 0..Len(s) } : s \in Inputs }

Exported(lits) == [ i \in 1..Len(lits) |-> checker_export(lits[i]) ]

\* The calls that pass a clause and commit it.
Pass(lits, commit) ==
  [ i \in 1..(Len(lits) + 1) |->
      IF i <= Len(lits) THEN << "literal", lits[i] >> ELSE << commit >> ]

\* The scenarios of section 8 of the specification, a clause added twice
\* and deleted three times, and a clause added and never deleted.
Scenario1 == << >>

Scenario2 ==
  Pass(<< 1, 2 >>, "original") \o Pass(<< 1, -2 >>, "original")
    \o Pass(<< -1, 2 >>, "original") \o Pass(<< 1 >>, "learned")
    \o Pass(<< 2 >>, "learned") \o Pass(<< >>, "learned")

Scenario3 == Pass(<< 1, 2 >>, "original") \o Pass(<< 3 >>, "learned")

Scenario4 == Pass(<< 1 >>, "original") \o Pass(<< -1, 2 >>, "original")

Scenario5 == Pass(<< 1, 2, 3 >>, "original") \o Pass(<< 3, 1, 2 >>, "delete")

Scenario6 == Pass(<< 1, 2, 3 >>, "original") \o Pass(<< 1, 2 >>, "delete")

Scenario7 == Pass(<< 1, 2 >>, "original") \o Pass(<< 1 >>, "learned")

ScenarioTwice ==
  Pass(<< 1, 2 >>, "original") \o Pass(<< 1, 2 >>, "original")
    \o Pass(<< 1, 2 >>, "delete") \o Pass(<< 1, 2 >>, "delete")
    \o Pass(<< 1, 2 >>, "delete")

\* Scenario 7 without its learned clause.
ScenarioRemains == Pass(<< 1, 2 >>, "original")

Scenarios ==
  { Scenario1, Scenario2, Scenario3, Scenario4, Scenario5, Scenario6,
    Scenario7, ScenarioTwice, ScenarioRemains }

\* With leak checking enabled first: the scenario, then the release.
Leak(s) == << << "leak" >> >> \o s \o << << "release" >> >>

\* Without leak checking: the scenario, then the release.
NoLeak(s) == s \o << << "release" >> >>

Scripts == { Leak(s) : s \in Scenarios } \cup { NoLeak(s) : s \in Scenarios }

\* The script of a caller that is free in what it calls.
Free == << << "free" >> >>

\* What a free caller may call: it builds the prefixes of Inputs, enables
\* leak checking at most once, and commits at most MaxCommits clauses on a
\* consistent checker.
MayCall(call) ==
  IF call[1] = "literal"
  THEN Append(Exported(clause), call[2]) \in Prefixes
  ELSE IF call[1] = "leak"
  THEN ~leak_checking
  ELSE IF call[1] = "release"
  THEN TRUE
  ELSE inconsistent \/ original + learned + deleted < MaxCommits

\* The caller makes the call: any call it may make when it is free, the
\* next call of its script otherwise.
Caller(call) ==
  /\ IF script = Free
     THEN MayCall(call) /\ UNCHANGED << script, pc, collection_interval >>
     ELSE /\ pc < Len(script)
          /\ script[pc + 1] = call
          /\ pc' = pc + 1
          /\ UNCHANGED << script, collection_interval >>
  /\ UNCHANGED << parser, encoder, sorter, generator, combi >>

(***************************************************************************)
(* The state machine.                                                      *)
(***************************************************************************)
\* checker_init: calloc of the checker.
checker_init ==
  /\ size = 0
  /\ inconsistent = FALSE
  /\ marks = << >>
  /\ values = << >>
  /\ watches = << >>
  /\ trail = << >>
  /\ clause = << >>
  /\ new_units = 0
  /\ wait_to_collect_satisfied_clauses = collection_interval
  /\ original = 0
  /\ learned = 0
  /\ deleted = 0
  /\ collected = 0
  /\ collections = 0
  /\ clauses = 0
  /\ remained = 0
  /\ leak_checking = FALSE
  /\ heap = [ c \in 1..MaxClauses |-> FreeClause ]
  /\ status = "ok"
  /\ models = Assignments

\* Only the checker runs.
OnlyChecker ==
  /\ parser = NotRunning
  /\ encoder = NotRunning
  /\ sorter = NotRunning
  /\ generator = NotRunning
  /\ combi = NotRunning

\* The checker of a free caller is built with a scaled interval.
Init ==
  /\ script = Free
  /\ pc = 0
  /\ collection_interval \in 2..MaxInterval
  /\ checker_init
  /\ OnlyChecker

\* The checker of the scenarios is built with the interval of the code.
InitScripts ==
  /\ script \in Scripts
  /\ pc = 0
  /\ collection_interval = GARBAGE_COLLECTION_INTERVAL
  /\ checker_init
  /\ OnlyChecker

\* The call returns or aborts as the code does; the allocator never fails.
Call(m) == m.status # "out-of-memory" /\ Becomes(m)

AddLiteral ==
  /\ status = "ok"
  /\ \E elit \in { e \in -3..3 : e # 0 } :
       /\ Caller(<< "literal", elit >>)
       /\ Call(checker_add_literal(Machine, elit))
  /\ UNCHANGED models

AddOriginal ==
  /\ status = "ok"
  /\ Caller(<< "original" >>)
  /\ Call(checker_add_original_clause(Machine))
  /\ models' = { a \in models : ClauseTrue(a, clause) }

AddLearned ==
  /\ status = "ok"
  /\ Caller(<< "learned" >>)
  /\ Call(checker_add_learned_clause(Machine))
  /\ UNCHANGED models

Delete ==
  /\ status = "ok"
  /\ Caller(<< "delete" >>)
  /\ Call(checker_delete_clause(Machine))
  /\ UNCHANGED models

EnableLeakChecking ==
  /\ status = "ok"
  /\ Caller(<< "leak" >>)
  /\ Call(checker_enable_leak_checking(Machine))
  /\ UNCHANGED models

Release ==
  /\ status = "ok"
  /\ Caller(<< "release" >>)
  /\ Call(checker_release(Machine))
  /\ UNCHANGED models

Next ==
  \/ AddLiteral
  \/ AddOriginal
  \/ AddLearned
  \/ Delete
  \/ EnableLeakChecking
  \/ Release

\* A caller that is free in what it calls.
Spec == Init /\ [][Next]_vars

\* The callers of the scenarios.
SpecScripts == InitScripts /\ [][Next]_vars

(***************************************************************************)
(* The notions the properties are stated with.                             *)
(***************************************************************************)
\* The literals of a sequence of literals.
Lits(lits) == { lits[i] : i \in 1..Len(lits) }

\* The clause objects stored.
Stored(m) == { c \in DOMAIN m.heap : ~m.heap[c].free }

\* The pending clause has a root-level true literal, or a literal and its
\* negation.
Trivial(m) ==
  \/ \E l \in Lits(m.clause) : m.values[l] > 0
  \/ \E l \in Lits(m.clause) : NOT(l) \in Lits(m.clause)

\* The distinct literals of the pending clause that are not false.
NonFalse(m) == { l \in Lits(m.clause) : m.values[l] >= 0 }

\* The stored clauses with the literal set of the pending clause.
SameSet(m) ==
  { c \in Stored(m) : Lits(m.heap[c].literals) = Lits(m.clause) }

\* The stored clauses without a true literal.
Unsatisfied(m) ==
  { c \in Stored(m) : \A l \in Lits(m.heap[c].literals) : m.values[l] <= 0 }

\* The steps that commit a clause on a consistent checker.
OriginalCommit == original' = original + 1

LearnedCommit == learned' = learned + 1

DeleteCommit == deleted' = deleted + 1

\* The step that releases the checker.
LeakMessages == { "exactly one clause remains", "clauses remain" }

ReleaseStep == status = "ok" /\ status' \in { "released" } \cup LeakMessages

\* The watch list of a literal: the clause objects in the order of the list.
NextIn(m, c, lit) ==
  IF Len(m.heap[c].literals) >= 2 /\ m.heap[c].literals[2] = lit
  THEN m.heap[c].next[2]
  ELSE m.heap[c].next[1]

RECURSIVE WatchListFrom(_, _, _, _)
WatchListFrom(m, lit, c, fuel) ==
  IF c = 0 \/ fuel = 0 THEN << >>
  ELSE << c >> \o WatchListFrom(m, lit, NextIn(m, c, lit), fuel - 1)

WatchList(m, lit) == WatchListFrom(m, lit, m.watches[lit], MaxClauses + 1)

Without(list, c) == SelectSeq(list, LAMBDA d : d # c)

\* The reference unit propagation: naive and exhaustive over the stored
\* clauses, on an assignment 'v' of the literals.
RefConflict(m, v) ==
  \E c \in Stored(m) : \A l \in Lits(m.heap[c].literals) : v[l] < 0

RefUnits(m, v) ==
  { l \in DOMAIN v :
      /\ v[l] = 0
      /\ \E c \in Stored(m) :
           /\ l \in Lits(m.heap[c].literals)
           /\ \A k \in Lits(m.heap[c].literals) \ { l } : v[k] < 0 }

RefAssign(v, lit) == [ v EXCEPT ![lit] = 1, ![NOT(lit)] = -1 ]

Least(S) == CHOOSE x \in S : \A y \in S : x <= y

RECURSIVE RefPropagate(_, _)
RefPropagate(m, v) ==
  IF RefConflict(m, v) \/ RefUnits(m, v) = { } THEN v
  ELSE RefPropagate(m, RefAssign(v, Least(RefUnits(m, v))))

\* The reference reverse unit propagation check of the pending clause.
RECURSIVE RefCheck(_, _, _), RefCheckAfter(_, _, _)
RefCheck(m, v, i) ==
  IF i > Len(m.clause) THEN FALSE
  ELSE IF v[m.clause[i]] > 0 THEN TRUE
  ELSE IF v[m.clause[i]] < 0 THEN RefCheck(m, v, i + 1)
  ELSE RefCheckAfter(m, RefPropagate(m, RefAssign(v, NOT(m.clause[i]))), i)

RefCheckAfter(m, w, i) == RefConflict(m, w) \/ RefCheck(m, w, i + 1)

\* The calls that pass the literals 'elits' and delete the clause.
RECURSIVE Repass(_, _, _)
Repass(m, elits, i) ==
  IF i > Len(elits) THEN m
  ELSE Repass(checker_add_literal(m, elits[i]), elits, i + 1)

RoundTrip(m, elits) == checker_delete_clause(Repass(m, elits, 1))

Reverse(s) == [ i \in 1..Len(s) |-> s[Len(s) + 1 - i] ]

\* What the round trip is observed on: the assignment, the flag, the stored
\* clauses and every watch list, as the clauses in its order.
Content(m, list) == [ i \in 1..Len(list) |-> m.heap[list[i]].literals ]

Observed(m) ==
  [ values |-> m.values,
    inconsistent |-> m.inconsistent,
    count |-> Cardinality(Stored(m)),
    stored |-> { m.heap[c].literals : c \in Stored(m) },
    lists |-> [ l \in 0..(m.size - 1) |-> Content(m, WatchList(m, l)) ] ]

\* The delete of 'elits' right after the step restores what is observed.
Restored(elits) ==
  /\ RoundTrip(Machine', elits).status = "ok"
  /\ Observed(RoundTrip(Machine', elits)) = Observed(Machine)

\* The calls that pass the literals 'elits' and add the clause as original.
Readd(m, elits) == checker_add_original_clause(Repass(m, elits, 1))

\* The number of stored clauses with the literals 'lits'.
Count(m, lits) ==
  Cardinality({ c \in Stored(m) : Lits(m.heap[c].literals) = Lits(lits) })

\* After the add that led to 'm1': the same clause is added once more and
\* deleted three times, its literals passed in either order.
AddedTwice(m1, lits, elits) ==
  LET m2 == Readd(m1, elits)
      m3 == RoundTrip(m2, elits)
      m4 == RoundTrip(m3, Reverse(elits))
      m5 == RoundTrip(m4, elits)
  IN /\ m1.status = "ok" /\ Count(m1, lits) = 1
     /\ m2.status = "ok" /\ Count(m2, lits) = 2
     /\ m3.status = "ok" /\ Count(m3, lits) = 1
     /\ m4.status = "ok" /\ Count(m4, lits) = 0
     /\ m5.status = "clause requested to delete not found"

(***************************************************************************)
(* The properties.                                                         *)
(***************************************************************************)
\* C1: soundness.  Every clause checker_add_learned_clause accepts is
\* entailed by the original clauses committed before it, whatever was
\* deleted or collected in between, and the checker is inconsistent only
\* when no assignment satisfies the original clauses.
C1_Soundness ==
  [][ /\ inconsistent' => models' = { }
      /\ (LearnedCommit /\ status' = "ok")
           => \A a \in models : ClauseTrue(a, clause) ]_vars

\* A learned clause was accepted and stored, a clause was deleted, and the
\* original clauses are satisfiable.
C1_Witness ==
  /\ status = "ok"
  /\ learned = 1
  /\ deleted = 1
  /\ clauses = 1
  /\ ~inconsistent
  /\ models # { }

\* C2: on a consistent checker, checker_add_learned_clause returns normally
\* exactly when the pending clause passes the reference reverse unit
\* propagation check (naive propagation over all stored clauses from the
\* root assignment), and otherwise aborts with 'learned clause not implied'.
C2_LearnedIffReferenceCheck ==
  [][ LearnedCommit =>
        IF RefCheck(Machine, values, 1)
        THEN status' = "ok"
        ELSE status' = "learned clause not implied" ]_vars

\* A learned clause was checked against two stored clauses, accepted and
\* stored as the third.
C2_Witness == status = "ok" /\ learned = 1 /\ clauses = 3

\* C3: on a consistent checker with a non-trivial pending clause,
\* checker_delete_clause frees exactly one stored clause with the literal
\* set of the pending clause and takes it out of the watch lists, the other
\* stored clauses, the order of the watch lists and the assignment staying
\* as they are; without such a clause it aborts with 'clause requested to
\* delete not found'.
C3_DeleteExactlyOne ==
  [][ (DeleteCommit /\ ~Trivial(Machine)) =>
        IF SameSet(Machine) # { }
        THEN /\ status' = "ok"
             /\ values' = values
             /\ clauses' = clauses - 1
             /\ \E c \in SameSet(Machine) :
                  /\ heap'[c].free
                  /\ \A d \in DOMAIN heap \ { c } :
                       /\ heap'[d].free = heap[d].free
                       /\ heap'[d].literals = heap[d].literals
                  /\ \A l \in 0..(size - 1) :
                       WatchList(Machine', l) = Without(WatchList(Machine, l), c)
        ELSE status' = "clause requested to delete not found" ]_vars

\* The clause stored first was deleted and the one stored second remains.
C3_Witness ==
  /\ status = "ok"
  /\ deleted = 1
  /\ collected = 0
  /\ heap[1].free
  /\ ~heap[2].free

\* C4: checker_release aborts exactly when leak checking is enabled, the
\* checker is not inconsistent and some stored clause has no root-level
\* true literal; it frees every stored clause.
C4_ReleaseAbortsIffLeak ==
  [][ ReleaseStep =>
        /\ status' \in LeakMessages
             <=> (leak_checking /\ ~inconsistent /\ Unsatisfied(Machine) # { })
        /\ status' \in LeakMessages
             => (/\ remained' = Cardinality(Unsatisfied(Machine))
                 /\ status' = "exactly one clause remains" <=> remained' = 1)
        /\ \A c \in DOMAIN heap : heap'[c].free
        /\ clauses' = 0 ]_vars

\* The release aborted: of two clauses stored, one was deleted and the other
\* remained.
C4_Witness ==
  /\ status = "exactly one clause remains"
  /\ deleted = 1
  /\ remained = 1

\* C5 as claimed: with leak checking enabled, after add_original [1,2] the
\* call add_learned [1] returns normally and the release aborts.
C5_AsClaimed ==
  script = Leak(Scenario7) =>
    /\ pc = 6 => status = "ok"
    /\ pc = 7 => status \in LeakMessages

\* C5: with leak checking enabled, after add_original [1,2] the call
\* add_learned [1] aborts with 'learned clause not implied' and the release
\* is never reached; without the learned clause the release aborts, the
\* clause [1,2] remaining without a root-level true literal.
C5_LearnedUnitAborts ==
  /\ script = Leak(Scenario7) =>
       /\ pc <= 5 => status = "ok"
       /\ pc \in 4..5 => (clauses = 1 /\ Unsatisfied(Machine) # { })
       /\ pc >= 6 => (pc = 6 /\ status = "learned clause not implied")
  /\ (script = Leak(ScenarioRemains) /\ pc = Len(script)) =>
       status = "exactly one clause remains"

\* The call add_learned [1] was made.
C5_Witness ==
  /\ script = Leak(Scenario7)
  /\ pc = 6
  /\ status = "learned clause not implied"
  /\ clauses = 1

\* C6 as claimed: after the original clauses [1,2], [1,-2], [-1,2] the
\* learned clauses [1], [2] and the empty clause are all accepted.
C6_AsClaimed ==
  (script = NoLeak(Scenario2) /\ pc \in { 11, 13, 14 }) => status = "ok"

\* C6: after the original clauses [1,2], [1,-2], [-1,2] the learned clauses
\* [1] and [2] are accepted and make the variables 1 and 2 true with the
\* checker consistent, and the empty clause then aborts with 'learned clause
\* not implied'.
C6_EmptyClauseAborts ==
  script = NoLeak(Scenario2) =>
    /\ pc <= 13 => (status = "ok" /\ ~inconsistent)
    /\ pc \in 11..13 => values[LITERAL(0)] = 1
    /\ pc = 13 => values[LITERAL(1)] = 1
    /\ pc >= 14 => (pc = 14 /\ status = "learned clause not implied")

\* The empty clause was passed as learned.
C6_Witness ==
  /\ script = NoLeak(Scenario2)
  /\ pc = 14
  /\ status = "learned clause not implied"
  /\ learned = 3

\* C7: on a consistent checker, checker_add_original_clause and
\* checker_delete_clause of a pending clause with a root-level true literal,
\* or with a literal and its negation, return normally and change nothing
\* but the counter of the call and the pending clause, which is cleared.
C7_TrivialChangesNothing ==
  [][ ((OriginalCommit \/ DeleteCommit) /\ Trivial(Machine)) =>
        /\ status' = "ok"
        /\ clause' = << >>
        /\ UNCHANGED << size, inconsistent, marks, values, watches, trail,
                        new_units, wait_to_collect_satisfied_clauses,
                        learned, collected, collections, clauses, remained,
                        leak_checking, heap >> ]_vars

\* A trivial clause was deleted with no clause stored.
C7_Witness ==
  /\ status = "ok"
  /\ deleted = 1
  /\ original = 0
  /\ learned = 0
  /\ clause = << >>

\* The three outcomes of the commit of a non-trivial clause.
ZeroOutcome ==
  /\ inconsistent'
  /\ values' = values
  /\ \A c \in DOMAIN heap : heap[c].free => heap'[c].free

UnitOutcome(l) ==
  /\ \A c \in DOMAIN heap : heap[c].free => heap'[c].free
  /\ values'[l] = 1
  /\ inconsistent'
       <=> RefConflict(Machine, RefPropagate(Machine, RefAssign(values, l)))
  /\ ~inconsistent'
       => values' = RefPropagate(Machine, RefAssign(values, l))

StoredOutcome ==
  /\ ~inconsistent'
  /\ values' = values
  /\ \E c \in DOMAIN heap :
       /\ heap[c].free
       /\ ~heap'[c].free
       /\ \A d \in DOMAIN heap \ { c } : heap[d].free => heap'[d].free
       /\ Lits(heap'[c].literals) = Lits(clause)
       /\ Len(heap'[c].literals) = Cardinality(Lits(clause))
       /\ values[heap'[c].literals[1]] = 0
       /\ values[heap'[c].literals[2]] = 0

\* C8: the commit of a non-trivial clause, original or learned, has one of
\* three outcomes by the number of its distinct non-false literals.  None:
\* the checker becomes inconsistent and nothing is stored.  One: nothing is
\* stored, the literal becomes true and is propagated, and the checker
\* becomes inconsistent exactly on a conflict.  Two or more: exactly one
\* clause object is stored, with every distinct literal of the clause and
\* two unassigned literals in its first two positions.
C8_ThreeOutcomes ==
  [][ ((OriginalCommit \/ LearnedCommit) /\ status' = "ok"
         /\ ~Trivial(Machine)) =>
        IF Cardinality(NonFalse(Machine)) = 0 THEN ZeroOutcome
        ELSE IF Cardinality(NonFalse(Machine)) = 1
        THEN UnitOutcome(CHOOSE l \in NonFalse(Machine) : TRUE)
        ELSE StoredOutcome ]_vars

\* A clause of three literals is stored with a false literal in its third
\* position and unassigned ones in its first two.
C8_Witness ==
  /\ status = "ok"
  /\ learned = 0
  /\ deleted = 0
  /\ \E c \in Stored(Machine) :
       /\ Len(heap[c].literals) = 3
       /\ values[heap[c].literals[1]] = 0
       /\ values[heap[c].literals[2]] = 0
       /\ values[heap[c].literals[3]] < 0

\* C9 as claimed: after add_original [1], the commit add_original [-1,2]
\* stores no clause, leaves the variable 2 unassigned and leaves the counter
\* of new units as it is.
C9_AsClaimed ==
  (script = NoLeak(Scenario4) /\ pc = 5) =>
    /\ clauses = 0
    /\ values[LITERAL(1)] = 0
    /\ new_units = 1

\* C9: after add_original [1], the commit add_original [-1,2] is not
\* trivial, -1 being false and not true: it stores no clause, makes the
\* variable 2 true as a unit, counts a second new unit and a second add on
\* the way to the garbage collection.
C9_UnitNotSkipped ==
  (script = NoLeak(Scenario4) /\ pc = 5) =>
    /\ status = "ok"
    /\ ~inconsistent
    /\ clauses = 0
    /\ Stored(Machine) = { }
    /\ values[LITERAL(1)] = 1
    /\ values[NOT(LITERAL(1))] = -1
    /\ new_units = 2
    /\ wait_to_collect_satisfied_clauses = GARBAGE_COLLECTION_INTERVAL - 2

\* The commit add_original [-1,2] was made.
C9_Witness == script = NoLeak(Scenario4) /\ pc = 5 /\ original = 2

\* C10 as claimed: checker_add_original_clause of any clause on a
\* consistent checker, followed by checker_delete_clause of its literals in
\* any order, restores the assignment, the flag 'inconsistent', the stored
\* clauses and every watch list.
C10_AsClaimed ==
  [][ OriginalCommit =>
        /\ Restored(Exported(clause))
        /\ Restored(Reverse(Exported(clause))) ]_vars

\* C10: the round trip restores what is observed when the clause is
\* trivial, or has two or more non-false literals and its add runs no
\* garbage collection, provided the delete passes the literals in the order
\* of the add or no stored clause had the literal set of the clause already.
C10_RoundTrip ==
  [][ (/\ OriginalCommit
       /\ collections' = collections
       /\ Trivial(Machine) \/ Cardinality(NonFalse(Machine)) >= 2) =>
        /\ Restored(Exported(clause))
        /\ (Trivial(Machine) \/ SameSet(Machine) = { })
             => Restored(Reverse(Exported(clause))) ]_vars

\* A second clause was stored and deleted again, the first one remaining.
C10_Witness ==
  /\ status = "ok"
  /\ original = 2
  /\ deleted = 1
  /\ collections = 0
  /\ new_units = 0
  /\ ~heap[1].free
  /\ heap[2].free

\* C11: clauses are not deduplicated.  A clause that checker_add_clause
\* finds with two or more non-false literals (it is not trivial, or the add
\* is skipped), committed twice with no instance stored before, is stored
\* as two clause objects; one checker_delete_clause of it leaves
\* exactly one instance, a second delete succeeds and leaves none, and a
\* third aborts with 'clause requested to delete not found'.
C11_NotDeduplicated ==
  [][ (/\ OriginalCommit
       /\ ~Trivial(Machine)
       /\ Cardinality(NonFalse(Machine)) >= 2
       /\ SameSet(Machine) = { }
       /\ Cardinality(Stored(Machine)) + 2 <= MaxClauses) =>
        AddedTwice(Machine', clause, Exported(clause)) ]_vars

\* The same clause was committed twice and is stored as two clause objects.
C11_Witness ==
  /\ status = "ok"
  /\ original = 2
  /\ clauses = 2
  /\ \E c, d \in Stored(Machine) :
       c # d /\ heap[c].literals = heap[d].literals

(***************************************************************************)
(* The front end (src/main.c): the XOR encoding and the DIMACS parser.     *)
(* The record 'parser' holds the globals of main.c and the locals of       *)
(* 'parse'; what the parser hands to the solver is kept as a history.      *)
(***************************************************************************)
\* The width of 'int' less the sign bit, scaled down so that the numbers of
\* the inputs reach beyond INT_MAX.
IntBits == 5

INT_MAX == 2 ^ IntBits - 1

\* Arithmetic of 'int' as the usual builds have it: two's complement.
AsInt(x) == ((x + INT_MAX + 1) % (2 * (INT_MAX + 1))) - (INT_MAX + 1)

\* The characters: strings of one character, and the end of the file.
EOF == "EOF"

NUL == "NUL"

DigitChars == << "0", "1", "2", "3", "4", "5", "6", "7", "8", "9" >>

isdigit(ch) == \E d \in 1..10 : DigitChars[d] = ch

\* 'ch - '0''.
Digit(ch) == (CHOOSE d \in 1..10 : DigitChars[d] = ch) - 1

\* The permutations of the first three literals of the queue that the
\* unsequenced 'DEQUEUE's of an initializer list may yield.
Orders ==
  { << 1, 2, 3 >>, << 1, 3, 2 >>, << 2, 1, 3 >>, << 2, 3, 1 >>,
    << 3, 1, 2 >>, << 3, 2, 1 >> }

\* The clauses 'direct_xor_encoding' adds to the solver.
direct_xor_encoding(l) ==
  IF Len(l) = 0 THEN << << >> >>
  ELSE IF Len(l) = 1 THEN << << l[1] >> >>
  ELSE IF Len(l) = 2 THEN << << l[1], l[2] >>, << 0 - l[1], 0 - l[2] >> >>
  ELSE IF Len(l) = 3
  THEN << << 0 - l[1], 0 - l[2], l[3] >>, << 0 - l[1], l[2], 0 - l[3] >>,
          << l[1], 0 - l[2], 0 - l[3] >>, << l[1], l[2], l[3] >> >>
  ELSE << << 0 - l[1], 0 - l[2], 0 - l[3], 0 - l[4] >>,
          << 0 - l[1], 0 - l[2], l[3], l[4] >>,
          << 0 - l[1], l[2], 0 - l[3], l[4] >>,
          << 0 - l[1], l[2], l[3], 0 - l[4] >>,
          << l[1], 0 - l[2], 0 - l[3], l[4] >>,
          << l[1], 0 - l[2], l[3], 0 - l[4] >>,
          << l[1], l[2], 0 - l[3], 0 - l[4] >>,
          << l[1], l[2], l[3], l[4] >> >>

\* 'int t[4] = { DEQUEUE (q), DEQUEUE (q), DEQUEUE (q), -tseitin }': the
\* i-th literal dequeued initializes t[order[i]].
Dequeued(q, order, tseitin) ==
  [ i \in 1..4 |->
      IF i = 4 THEN AsInt(0 - tseitin)
      ELSE q[CHOOSE j \in 1..3 : order[j] = i] ]

\* A step that enqueues the negation of the new variable.
tseitin_step_negated(e) ==
  [ e EXCEPT
      !.tseitin = AsInt(@ + 1),
      !.logged = Append(@, AsInt(e.tseitin + 1)),
      !.clauses = @ \o direct_xor_encoding(
                         Dequeued(e.q, e.order, AsInt(e.tseitin + 1))),
      !.q = SubSeq(@, 4, Len(@)) \o << AsInt(0 - AsInt(e.tseitin + 1)) >> ]

\* The body of the loop of 'encode_xor', on the run 'e' of the encoding:
\* 'tseitin++' in the arithmetic of 'int', and the variable that the line
\* 'LOG ("new variable %d = ...", tseitin, ...)' names is kept in 'logged'.
tseitin_step(e) ==
  [ e EXCEPT
      !.tseitin = AsInt(@ + 1),
      !.logged = Append(@, AsInt(e.tseitin + 1)),
      !.clauses = @ \o direct_xor_encoding(
                         Dequeued(e.q, e.order, AsInt(e.tseitin + 1))),
      !.q = SubSeq(@, 4, Len(@)) \o << AsInt(e.tseitin + 1) >> ]

\* 'direct_xor_encoding (size, q.head)' and the return of 'encode_xor'.
encode_rest(e) ==
  [ e EXCEPT !.clauses = @ \o direct_xor_encoding(e.q),
             !.status = "encoded" ]

\* 'encode_xor': the run of the encoding from its start to its return.
RECURSIVE encode_loop(_)
encode_loop(e) ==
  IF Len(e.q) > 4 THEN encode_loop(tseitin_step(e)) ELSE encode_rest(e)

\* The start of 'encode_xor': the literals are enqueued.
encode_start(tseitin, literals, order) ==
  [ status |-> "encoding", literals |-> literals, first |-> tseitin,
    order |-> order, q |-> literals, tseitin |-> tseitin,
    logged |-> << >>, clauses |-> << >> ]

encode_xor(tseitin, literals, order) ==
  encode_loop(encode_start(tseitin, literals, order))

(***************************************************************************)
(* The parser.                                                             *)
(***************************************************************************)
\* 'parse_error': the process exits with the message.
parse_error(p, msg) == [ p EXCEPT !.status = msg ]

Failed(p) == p.status \notin { "start", "parsing", "parsed" }

\* 'getc (input.file)'.
getc(p) == IF p.pos < Len(p.file) THEN p.file[p.pos + 1] ELSE EOF

consumed(p) == [ p EXCEPT !.pos = IF @ < Len(p.file) THEN @ + 1 ELSE @ ]

\* 'if (res == '\n') lineno++; if (res != EOF) bytes++; return res;'.
counted(p, res) ==
  [ p EXCEPT !.ch = res,
             !.lineno = IF res = "\n" THEN @ + 1 ELSE @,
             !.bytes = IF res # EOF THEN @ + 1 ELSE @ ]

\* 'next' after a carriage return was read.
after_carriage_return(p) ==
  IF getc(p) # "\n"
  THEN parse_error(consumed(p), "expected new line after carriage return")
  ELSE counted(consumed(p), "\n")

next(p) ==
  IF Failed(p) THEN p
  ELSE IF getc(p) = "\r"
  THEN after_carriage_return(consumed([ p EXCEPT !.bytes = @ + 1 ]))
  ELSE counted(consumed(p), getc(p))

\* 'while ((ch = next ()) != '\n') if (ch == EOF) parse_error (...)'.
RECURSIVE skip_line(_, _), skip_line_after(_, _)
skip_line(p, msg) == skip_line_after(next(p), msg)

skip_line_after(q, msg) ==
  IF Failed(q) \/ q.ch = "\n" THEN q
  ELSE IF q.ch = EOF THEN parse_error(q, msg)
  ELSE skip_line(q, msg)

\* 'while ((ch = next ()) == 'c') ...': the comments before the header.
RECURSIVE header_comments(_), header_comments_after(_)
header_comments(p) == header_comments_after(next(p))

header_comments_after(q) ==
  IF Failed(q) \/ q.ch # "c" THEN q
  ELSE header_comments(
         skip_line(q, "unexpected end-of-file in header comment"))

\* 'while ((ch = next ()) == ' ' || ch == '\t');'.
RECURSIVE skip_blanks(_), skip_blanks_after(_)
skip_blanks(p) == skip_blanks_after(next(p))

skip_blanks_after(q) ==
  IF Failed(q) \/ q.ch \notin { " ", "\t" } THEN q ELSE skip_blanks(q)

\* 'if (next () != C) parse_error (...)'.
expected(q, chars, msg) ==
  IF Failed(q) \/ q.ch \in chars THEN q ELSE parse_error(q, msg)

\* The three numbers 'parse' reads digit by digit: the maximum variable of
\* the header ('int variables'), its number of clauses ('size_t
\* specified_clauses') and the variable of a literal ('int idx').  The
\* number read is accumulated in 'idx' here.
MAX_OF(kind) == IF kind = "clauses" THEN MAX_SIZE_T ELSE INT_MAX

ZeroMessage(kind) ==
  IF kind = "variables"
  THEN "invalid digit after '0' while parsing maximum variable"
  ELSE IF kind = "clauses"
  THEN "invalid digit after '0' while parsing number of clauses"
  ELSE "invalid digit after '0' in number"

WayTooBig(kind) ==
  IF kind = "variables" THEN "maximum variable number way too big"
  ELSE IF kind = "clauses" THEN "way too many clauses specified"
  ELSE "number way too large"

TooBig(kind) ==
  IF kind = "variables" THEN "maximum variable number too big"
  ELSE IF kind = "clauses" THEN "too many clauses specified"
  ELSE "number too large"

\* The result 'x' of a multiplication or addition is stored: beyond
\* INT_MAX an 'int' has overflowed (recorded in 'overflow') and holds what
\* two's complement leaves; a 'size_t' wraps around.
accumulated(p, x, kind) ==
  IF x <= MAX_OF(kind) THEN [ p EXCEPT !.idx = x ]
  ELSE IF kind = "clauses" THEN [ p EXCEPT !.idx = (x - MAX_SIZE_T) - 1 ]
  ELSE [ p EXCEPT !.idx = AsInt(x), !.overflow = TRUE ]

\* 'if (MAX - digit < idx) parse_error (...); idx += digit;'.
add_digit(p, digit, kind) ==
  IF MAX_OF(kind) - digit < p.idx THEN parse_error(p, TooBig(kind))
  ELSE accumulated(p, p.idx + digit, kind)

\* A digit read without the test before the multiplication.
read_digit_unguarded(p, kind) ==
  IF p.idx = 0 THEN parse_error(p, ZeroMessage(kind))
  ELSE add_digit(accumulated(p, p.idx * 10, kind), Digit(p.ch), kind)

\* The body of the loops that read a number: 'p.ch' is the digit read.
read_digit(p, kind) ==
  IF p.idx = 0 THEN parse_error(p, ZeroMessage(kind))
  ELSE IF MAX_OF(kind) \div 10 < p.idx THEN parse_error(p, WayTooBig(kind))
  ELSE add_digit(accumulated(p, p.idx * 10, kind), Digit(p.ch), kind)

\* 'while (isdigit (ch = next ())) ...'.
RECURSIVE read_digits(_, _), read_digits_after(_, _)
read_digits(p, kind) == read_digits_after(next(p), kind)

read_digits_after(q, kind) ==
  IF Failed(q) \/ ~isdigit(q.ch) THEN q
  ELSE read_digits(read_digit(q, kind), kind)

\* 'N = ch - '0'; while (isdigit (ch = next ())) ...' after the blanks.
read_number(q, kind, msg) ==
  IF Failed(q) THEN q
  ELSE IF ~isdigit(q.ch) THEN parse_error(q, msg)
  ELSE read_digits([ q EXCEPT !.idx = Digit(q.ch) ], kind)

\* The header up to the blank after 'p cnf' or 'p xnf'.
header_format(q) ==
  IF Failed(q) THEN q ELSE [ q EXCEPT !.format = q.ch ]

header_magic(p) ==
  expected(next(
    expected(next(
      expected(next(
        header_format(expected(next(
          expected(next(
            expected(header_comments(p), { "p" }, "expected 'p' or 'c'")),
            { " " }, "expected space after 'p'")),
          { "c", "x" }, "expected 'c' or 'x' after 'p '"))),
        { "n" }, "expected 'n' after 'p c'")),
      { "f" }, "expected 'f' after 'p cn'")),
    { " " }, "expected space after 'p cnf'")

\* 'variables = ...'.
header_variables_read(q) ==
  IF Failed(q) THEN q ELSE [ q EXCEPT !.variables = q.idx ]

header_variables(p) ==
  header_variables_read(
    read_number(skip_blanks(p), "variables",
                "expected digit after 'p cnf '"))

\* 'size_t specified_clauses = ...' and the rest of the header line.
header_line_end(q) ==
  IF Failed(q) THEN q
  ELSE expected(IF q.ch \in { " ", "\t" } THEN skip_blanks(q) ELSE q,
                { "\n" }, "expected new line after 'p cnf V C'")

header_clauses_read(q) ==
  IF Failed(q) THEN q
  ELSE header_line_end([ q EXCEPT !.specified_clauses = q.idx ])

header_clauses(p) ==
  header_clauses_read(
    read_number(
      skip_blanks(expected(p, { " " }, "expected space after 'p cnf V'")),
      "clauses", "expected digit after 'p cnf V '"))

\* The locals of 'parse' declared after the header.
header_parsed(q) ==
  IF Failed(q) THEN q
  ELSE [ q EXCEPT !.status = "parsing",
                  !.parsed_variables = 0,
                  !.parsed_clauses = 0,
                  !.parsed_xors = 0,
                  !.offset_of_encoded_xors = 0,
                  !.tseitin = IF q.force THEN 0 ELSE q.variables,
                  !.type = NUL,
                  !.lit = 0 ]

parse_header(p) == header_parsed(header_clauses(header_variables(header_magic(p))))

\* 'COMMENT:' and the comments of the body.
comment(q) == skip_line(q, "unexpected end-of-file in comment")

\* 'if (ch == 'x') ...'.
xor_type(q) ==
  IF q.lit # 0 THEN parse_error(q, "'x' after non-zero literal")
  ELSE IF q.type # NUL THEN parse_error(q, "'x' after 'x'")
  ELSE IF ~q.force /\ q.format # "x"
  THEN parse_error(q, "unexpected 'x' in CNF (use 'p xnf ...' header)")
  ELSE [ q EXCEPT !.type = "x" ]

\* The end of an XOR clause in precise parsing mode: it is encoded.
xor_encoded(q, e, new_offset) ==
  [ q EXCEPT !.tseitin = e.tseitin,
             !.encoded = @ \o e.clauses,
             !.logged = @ \o e.logged,
             !.xors = IF q.ndebug THEN << >> ELSE Append(@, 0),
             !.offset_of_encoded_xors =
               IF q.ndebug THEN @ ELSE new_offset + 1 ]

\* The zero that ends an XOR clause.
xor_end(q) ==
  IF q.force THEN [ q EXCEPT !.xors = Append(@, 0) ]
  ELSE xor_encoded(
         q,
         encode_xor(q.tseitin,
                    SubSeq(q.xors, q.offset_of_encoded_xors + 1,
                           Len(q.xors)),
                    q.order),
         Len(q.xors))

\* A parser that keeps the zeros of the clauses from the solver.
literal_used_without_zero(q) ==
  IF q.type = NUL
  THEN IF q.lit # 0 THEN [ q EXCEPT !.added = Append(@, q.lit) ] ELSE q
  ELSE IF q.lit # 0 THEN [ q EXCEPT !.xors = Append(@, q.lit) ]
  ELSE [ xor_end(q) EXCEPT !.type = NUL, !.parsed_xors = @ + 1 ]

\* 'if (!type) satch_add (solver, lit); else if (lit) PUSH (xors, lit);
\* else ...'.
literal_used(q) ==
  IF q.type = NUL THEN [ q EXCEPT !.added = Append(@, q.lit) ]
  ELSE IF q.lit # 0 THEN [ q EXCEPT !.xors = Append(@, q.lit) ]
  ELSE [ xor_end(q) EXCEPT !.type = NUL, !.parsed_xors = @ + 1 ]

\* 'if (ch == 'c') goto COMMENT;'.
literal_done(q) == IF q.ch = "c" THEN comment(q) ELSE q

\* A parser that lets the literals beyond the maximum variable pass.
literal_unbounded(q) ==
  IF q.ch \notin { " ", "\t", "\n", "c" }
  THEN parse_error(q, "unexpected character after literal")
  ELSE literal_done(literal_used(
         [ q EXCEPT
             !.parsed_variables = IF q.idx > @ THEN q.idx ELSE @,
             !.parsed_clauses = IF q.lit = 0 THEN @ + 1 ELSE @ ]))

\* The literal is read: the character after it, the maximum variable, the
\* counters.
literal_checked(q) ==
  IF q.ch \notin { " ", "\t", "\n", "c" }
  THEN parse_error(q, "unexpected character after literal")
  ELSE IF ~q.force /\ q.idx > q.variables
  THEN parse_error(q, "literal exceeds maximum variable index")
  ELSE literal_done(literal_used(
         [ q EXCEPT
             !.parsed_variables = IF q.idx > @ THEN q.idx ELSE @,
             !.parsed_clauses = IF q.lit = 0 THEN @ + 1 ELSE @ ]))

\* 'lit = sign * idx;'.
literal_read(q, sign) ==
  IF Failed(q) THEN q
  ELSE literal_checked([ q EXCEPT !.lit = sign * q.idx ])

\* 'if (!force) ... "more clauses than specified"' and the variable index.
literal_digits(q, sign) ==
  IF ~q.force /\ q.parsed_clauses = q.specified_clauses
  THEN parse_error(q, "more clauses than specified")
  ELSE literal_read(read_digits([ q EXCEPT !.idx = Digit(q.ch) ], "idx"),
                    sign)

\* 'if (ch == '-') ...'.
after_minus(q) ==
  IF Failed(q) THEN q
  ELSE IF ~isdigit(q.ch) THEN parse_error(q, "expected digit after '-'")
  ELSE IF q.ch = "0"
  THEN parse_error(q, "expected non-zero digit after '-'")
  ELSE literal_digits(q, -1)

literal(q) ==
  IF q.ch = "-" THEN after_minus(next(q))
  ELSE IF ~isdigit(q.ch) THEN parse_error(q, "expected number")
  ELSE literal_digits(q, 1)

\* 'encode_xors': the XOR clauses of the stack from 'start' on, each ended
\* by a zero, are encoded one after the other.
XorEnd(xors, x) ==
  CHOOSE y \in x..Len(xors) :
    xors[y] = 0 /\ \A z \in x..(y - 1) : xors[z] # 0

RECURSIVE encode_xors(_, _, _), encode_xors_from(_, _, _)
encode_xors(q, tseitin, x) ==
  IF x > Len(q.xors) THEN q
  ELSE encode_xors_from(
         q,
         encode_xor(tseitin, SubSeq(q.xors, x, XorEnd(q.xors, x) - 1),
                    q.order),
         XorEnd(q.xors, x))

encode_xors_from(q, e, y) ==
  encode_xors([ q EXCEPT !.encoded = @ \o e.clauses,
                         !.logged = @ \o e.logged ],
              e.tseitin, y + 1)

\* A parser that takes the maximum variable found for the number of
\* variables.
variables_observed(q) ==
  [ q EXCEPT !.variables = q.parsed_variables,
             !.xors = IF q.ndebug THEN << >> ELSE @,
             !.status = "parsed" ]

\* 'if (force && variables < parsed_variables) variables = ...' and the
\* return of 'parse'.
variables_final(q) ==
  [ q EXCEPT !.variables =
               IF q.force /\ @ < q.parsed_variables
               THEN q.parsed_variables ELSE @,
             !.xors = IF q.ndebug THEN << >> ELSE @,
             !.status = "parsed" ]

\* The end of the file is read: what follows the loop of 'parse'.
finish(q) ==
  IF q.lit # 0
  THEN parse_error(q, "terminating zero after literal missing")
  ELSE IF q.type # NUL THEN parse_error(q, "literals missing after 'x'")
  ELSE IF ~q.force /\ q.parsed_clauses + 1 = q.specified_clauses
  THEN parse_error(q, "single clause missing")
  ELSE IF ~q.force /\ q.parsed_clauses < q.specified_clauses
  THEN parse_error(q, "clauses missing")
  ELSE variables_final(
         IF q.xors # << >>
         THEN encode_xors(q, q.parsed_variables,
                          q.offset_of_encoded_xors + 1)
         ELSE q)

(***************************************************************************)
(* The inputs of the parser: files described by what they hold.            *)
(***************************************************************************)
\* The numbers of the files that test the reading of numbers have up to
\* MaxDigits digits.
MaxDigits == 3

\* The other files have up to MaxItems items (clauses, comments) after
\* their header.
MaxItems == 3

Numbers ==
  UNION { [ 1..n -> { DigitChars[d] : d \in 1..10 } ] : n \in 1..MaxDigits }

\* The digits of a number.
RECURSIVE Decimal(_)
Decimal(n) ==
  IF n < 10 THEN << DigitChars[n + 1] >>
  ELSE Append(Decimal(n \div 10), DigitChars[(n % 10) + 1])

\* The number the digits stand for.
RECURSIVE Value(_)
Value(digits) ==
  IF digits = << >> THEN 0
  ELSE 10 * Value(SubSeq(digits, 1, Len(digits) - 1))
         + Digit(digits[Len(digits)])

\* An item of a file: its characters, the integers it holds (those of a
\* comment are none) and whether they are those of an XOR clause.
Item(text, ints, xor) == [ text |-> text, ints |-> ints, xor |-> xor ]

Items ==
  { Item(<< "1", " ", "0", "\r", "\n" >>, << 1, 0 >>, FALSE),
    Item(<< "-", "2", " ", "3", " ", "0", "\n" >>, << -2, 3, 0 >>, FALSE),
    Item(<< "x", " ", "1", " ", "-", "2", " ", "0", "\n" >>,
         << 1, -2, 0 >>, TRUE),
    Item(<< "x", "1", " ", "2", " ", "-", "1", " ", "-", "2", " ", "1",
            " ", "0", "\n" >>,
         << 1, 2, -1, -2, 1, 0 >>, TRUE),
    Item(<< "c", " ", "9", "\n" >>, << >>, FALSE),
    Item(<< "2", "c", " ", "9", "\n", "\t", "0", "\n" >>, << 2, 0 >>, FALSE),
    Item(<< "1", "\n" >>, << 1 >>, FALSE) }

\* The item of one literal and the zero after it.
NumberItem(sign, digits) ==
  [ text |-> sign \o digits \o << " ", "0", "\n" >>,
    ints |-> << (IF sign = << >> THEN 1 ELSE -1) * Value(digits), 0 >>,
    xor |-> FALSE, sign |-> sign, digits |-> digits ]

\* The builds: with or without NDEBUG, the initializers of 't' evaluated
\* from the left or from the right.
Builds ==
  [ ndebug : BOOLEAN, order : { << 1, 2, 3 >>, << 3, 2, 1 >> } ]

Source(kind, force, build, format, V, C, items) ==
  [ kind |-> kind, force |-> force, build |-> build, format |-> format,
    variables |-> V, clauses |-> C, items |-> items ]

\* The number of zeros of the items.
RECURSIVE Zeros(_)
Zeros(items) ==
  IF items = << >> THEN 0
  ELSE Zeros(Tail(items))
         + Cardinality({ i \in DOMAIN Head(items).ints :
                           Head(items).ints[i] = 0 })

Bodies == UNION { [ 1..n -> Items ] : n \in 0..MaxItems }

\* Files whose header has any number for the maximum variable.
HeaderNumberSources ==
  { Source("header number", force, [ ndebug |-> FALSE,
                                     order |-> << 1, 2, 3 >> ],
           "c", V, << "0" >>, << >>) :
      force \in BOOLEAN, V \in Numbers }

\* Files whose only clause has any number for its literal.
LiteralNumberSources ==
  { Source("literal number", force, [ ndebug |-> FALSE,
                                      order |-> << 1, 2, 3 >> ],
           "c", Decimal(INT_MAX), << "1" >>,
           << NumberItem(sign, digits) >>) :
      force \in BOOLEAN, sign \in { << >>, << "-" >> }, digits \in Numbers }

\* Files of clauses, XOR clauses and comments, with the maximum variable 2
\* and with the number of their clauses or 2 in the header.
ItemSources ==
  { Source("items", force, build, format, << "2" >>, C, items) :
      force \in BOOLEAN, build \in Builds, format \in { "c", "x" },
      C \in { << "2" >> }, items \in Bodies }
    \cup
  { Source("items", force, build, format, << "2" >>,
           Decimal(Zeros(items)), items) :
      force \in BOOLEAN, build \in Builds, format \in { "c", "x" },
      items \in Bodies }

Sources == HeaderNumberSources \cup LiteralNumberSources \cup ItemSources

\* The characters of a file.
RECURSIVE Texts(_)
Texts(items) ==
  IF items = << >> THEN << >> ELSE Head(items).text \o Texts(Tail(items))

Header(s) ==
  << "p", " ", s.format, "n", "f", " " >> \o s.variables \o << " " >>
    \o s.clauses \o << "\n" >>

Render(s) == Header(s) \o Texts(s.items)

(***************************************************************************)
(* The state machine of the parser.                                        *)
(***************************************************************************)
\* The checker does not run.
CheckerIdle ==
  /\ script = << >>
  /\ pc = 0
  /\ collection_interval = GARBAGE_COLLECTION_INTERVAL
  /\ checker_init

\* The globals of main.c when 'parse' is called on the file of 'source'.
parse_start(s) ==
  [ status |-> "start", source |-> s, file |-> Render(s), pos |-> 0,
    lineno |-> 1, bytes |-> 0, ch |-> NUL,
    force |-> s.force, ndebug |-> s.build.ndebug, order |-> s.build.order,
    format |-> NUL, variables |-> 0, specified_clauses |-> 0,
    parsed_variables |-> 0, parsed_clauses |-> 0, parsed_xors |-> 0,
    offset_of_encoded_xors |-> 0, tseitin |-> 0, type |-> NUL, lit |-> 0,
    idx |-> 0, xors |-> << >>, added |-> << >>, encoded |-> << >>,
    logged |-> << >>, overflow |-> FALSE ]

InitParse ==
  /\ CheckerIdle
  /\ \E s \in Sources : parser = parse_start(s)
  /\ encoder = NotRunning
  /\ sorter = NotRunning
  /\ generator = NotRunning
  /\ combi = NotRunning

\* The parser alone takes a step.
Parsed(p) ==
  /\ parser' = p
  /\ UNCHANGED << checker_vars, encoder, sorter, generator, combi >>

\* 'parse' from its start to the end of the header.
ParseHeader ==
  /\ parser.status = "start"
  /\ Parsed(parse_header(parser))

\* The iterations of the loop of 'parse', by the character read first:
\* white space, or a carriage return without a new line after it.
SkipWhiteSpace ==
  /\ parser.status = "parsing"
  /\ Failed(next(parser)) \/ next(parser).ch \in { " ", "\t", "\n" }
  /\ Parsed(next(parser))

ReadComment ==
  /\ parser.status = "parsing"
  /\ next(parser).ch = "c"
  /\ Parsed(comment(next(parser)))

ReadXorType ==
  /\ parser.status = "parsing"
  /\ next(parser).ch = "x"
  /\ Parsed(xor_type(next(parser)))

ReadLiteral ==
  /\ parser.status = "parsing"
  /\ ~Failed(next(parser))
  /\ next(parser).ch \notin { " ", "\t", "\n", "c", "x", EOF }
  /\ Parsed(literal(next(parser)))

\* The end of the file: 'break' and the rest of 'parse'.
Finish ==
  /\ parser.status = "parsing"
  /\ next(parser).ch = EOF
  /\ Parsed(finish(next(parser)))

NextParse ==
  \/ ParseHeader
  \/ SkipWhiteSpace
  \/ ReadComment
  \/ ReadXorType
  \/ ReadLiteral
  \/ Finish

\* The parser on the files of 'Sources'.
SpecParse == InitParse /\ [][NextParse]_vars

(***************************************************************************)
(* The state machine of one call of 'encode_xor'.                          *)
(***************************************************************************)
\* The XOR clauses encoded have up to MaxXor literals.
MaxXor == 7

\* The literals of the XOR clauses: the variables 1..k in any signs, and
\* the clauses of up to three literals over the variables 1 and 2.
XorInputs ==
  UNION { { [ i \in 1..k |-> sign[i] * i ] : sign \in [ 1..k -> { -1, 1 } ] } :
            k \in 0..MaxXor }
    \cup UNION { [ 1..k -> { -2, -1, 1, 2 } ] : k \in 2..3 }

\* The largest variable of the literals.
RECURSIVE MaxVariable(_)
MaxVariable(literals) ==
  IF literals = << >> THEN 0
  ELSE IF abs(Head(literals)) > MaxVariable(Tail(literals))
  THEN abs(Head(literals))
  ELSE MaxVariable(Tail(literals))

InitXor ==
  /\ CheckerIdle
  /\ \E literals \in XorInputs, order \in Orders :
       encoder = encode_start(MaxVariable(literals), literals, order)
  /\ parser = NotRunning
  /\ sorter = NotRunning
  /\ generator = NotRunning
  /\ combi = NotRunning

Encoded(e) ==
  /\ encoder' = e
  /\ UNCHANGED << checker_vars, parser, sorter, generator, combi >>

\* An iteration of the loop of 'encode_xor'.
TseitinStep ==
  /\ encoder.status = "encoding"
  /\ Len(encoder.q) > 4
  /\ Encoded(tseitin_step(encoder))

\* The end of 'encode_xor'.
EncodeRest ==
  /\ encoder.status = "encoding"
  /\ Len(encoder.q) <= 4
  /\ Encoded(encode_rest(encoder))

NextXor ==
  \/ TseitinStep
  \/ EncodeRest

\* 'encode_xor' on the XOR clauses of 'XorInputs'.
SpecXor == InitXor /\ [][NextXor]_vars

(***************************************************************************)
(* The properties of the parser and of the XOR encoding.                   *)
(***************************************************************************)
\* A number of more than one digit that starts with a zero.
LeadingZero(digits) == Len(digits) > 1 /\ digits[1] = "0"

\* The outcome of reading the number of the digits, by the messages of the
\* loop that reads it: an error for a leading zero and for a number beyond
\* INT_MAX, the value 'read' otherwise.
NumberRead(digits, kind, read) ==
  IF LeadingZero(digits) THEN parser.status = ZeroMessage(kind)
  ELSE IF Value(digits) > INT_MAX
  THEN parser.status \in { WayTooBig(kind), TooBig(kind) }
  ELSE /\ parser.status \notin
            { ZeroMessage(kind), WayTooBig(kind), TooBig(kind) }
       /\ read = Value(digits)

\* The literal of a file that tests the reading of numbers.
TestedLiteral == parser.source.items[1]

\* C12: the parser never overflows an 'int': no multiplication or addition
\* with a result beyond INT_MAX is executed and no number kept exceeds
\* INT_MAX.  A maximum variable or a literal magnitude beyond INT_MAX is a
\* parse error, one with a zero before other digits as well, and every
\* other one is read with exactly its value (after a '-' a magnitude that
\* starts with a zero is an error of its own).
C12_NumbersNeverOverflow ==
  /\ ~Failed(parser) \/ parser.status \in STRING
  /\ parser.status # "not running" =>
       /\ ~parser.overflow
       /\ parser.idx \in 0..INT_MAX
       /\ parser.variables \in 0..INT_MAX
       /\ abs(parser.lit) <= INT_MAX
       /\ (parser.source.kind = "header number" /\ parser.status # "start")
            => /\ NumberRead(parser.source.variables, "variables",
                             parser.variables)
               /\ Value(parser.source.variables) <= INT_MAX
                    /\ ~LeadingZero(parser.source.variables)
                    => ~Failed(parser)
       /\ (/\ parser.source.kind = "literal number"
           /\ parser.pos > Len(Header(parser.source)))
            => IF TestedLiteral.sign # << >> /\ TestedLiteral.digits[1] = "0"
               THEN parser.status = "expected non-zero digit after '-'"
               ELSE NumberRead(TestedLiteral.digits, "idx",
                               IF parser.added = << >> THEN -1
                               ELSE abs(parser.added[1]))

\* The literal -INT_MAX was read and handed to the solver.
C12_Witness ==
  /\ parser.status = "parsed"
  /\ parser.source.kind = "literal number"
  /\ parser.added = << 0 - INT_MAX, 0 >>

\* The integers of the items of a file, and those outside XOR clauses.
RECURSIVE AllInts(_)
AllInts(items) ==
  IF items = << >> THEN << >>
  ELSE Head(items).ints \o AllInts(Tail(items))

RECURSIVE PlainInts(_)
PlainInts(items) ==
  IF items = << >> THEN << >>
  ELSE (IF Head(items).xor THEN << >> ELSE Head(items).ints)
         \o PlainInts(Tail(items))

\* The maximum variable of the header and the one found in the file.
HeaderV == Value(parser.source.variables)

Observed_V == MaxVariable(AllInts(parser.source.items))

\* C13 as claimed: after forced parsing the number of variables is the
\* maximum variable found in the file.
C13_AsClaimed ==
  (parser.status = "parsed" /\ parser.force) => parser.variables = Observed_V

\* C13: in strict mode a file with a literal beyond the maximum variable V
\* of its header is a parse error and the number of variables stays V; in
\* force mode such a literal is accepted and the number of variables after
\* parsing is the larger of V and the maximum variable found in the file.
C13_HeaderBoundsLiterals ==
  /\ (parser.status = "parsing" /\ ~parser.force) =>
       /\ parser.parsed_variables <= parser.variables
       /\ \A i \in DOMAIN parser.added : abs(parser.added[i]) <= HeaderV
       /\ \A i \in DOMAIN parser.xors : abs(parser.xors[i]) <= HeaderV
  /\ parser.status = "literal exceeds maximum variable index" =>
       ~parser.force /\ parser.idx > parser.variables
  /\ parser.status = "parsed" =>
       /\ parser.parsed_variables = Observed_V
       /\ ~parser.force => (Observed_V <= HeaderV /\ parser.variables = HeaderV)
       /\ parser.force =>
            parser.variables =
              IF HeaderV < Observed_V THEN Observed_V ELSE HeaderV

\* A file with a literal beyond the maximum variable of its header was
\* parsed in force mode.
C13_Witness ==
  /\ parser.status = "parsed"
  /\ parser.force
  /\ parser.parsed_variables > HeaderV
  /\ parser.variables = parser.parsed_variables

\* C14 as claimed: what an accepted file hands to 'satch_add' is the
\* sequence of the integers of the file after its header.
C14_AsClaimed ==
  parser.status = "parsed" => parser.added = AllInts(parser.source.items)

\* C14: what an accepted file hands to 'satch_add' is the sequence of the
\* integers of the file after its header that are outside XOR clauses, the
\* zeros that end clauses included; the integers of an XOR clause are kept
\* from 'satch_add', and while the file is read the integers handed over
\* are a prefix of that sequence.
C14_AddedAsRead ==
  /\ parser.status = "parsed" =>
       parser.added = PlainInts(parser.source.items)
  /\ parser.status = "parsing" =>
       /\ Len(parser.added) <= Len(PlainInts(parser.source.items))
       /\ parser.added
            = SubSeq(PlainInts(parser.source.items), 1, Len(parser.added))

\* A file with clauses and an XOR clause was accepted.
C14_Witness ==
  /\ parser.status = "parsed"
  /\ Len(parser.added) >= 5
  /\ parser.encoded # << >>
  /\ parser.added # AllInts(parser.source.items)

\* The truth of a literal and of a clause in the set 'a' of true variables.
Holds(a, l) == IF l < 0 THEN (0 - l) \notin a ELSE l \in a

Satisfies(a, clauses_) ==
  \A c \in DOMAIN clauses_ :
    \E i \in DOMAIN clauses_[c] : Holds(a, clauses_[c][i])

\* An odd number of the literals is true.
Odd(a, literals) ==
  Cardinality({ i \in DOMAIN literals : Holds(a, literals[i]) }) % 2 = 1

\* C15: the clauses 'encode_xor' adds for an XOR clause can be satisfied by
\* some values of the Tseitin variables exactly under the values of the
\* variables of the XOR clause that make an odd number of its literals
\* true; without literals the empty clause is added.
C15_XorEncodingCorrect ==
  encoder.status = "encoded" =>
    /\ \A a \in SUBSET (1..encoder.first) :
         Odd(a, encoder.literals)
           <=> \E t \in SUBSET ((encoder.first + 1)..encoder.tseitin) :
                 Satisfies(a \cup t, encoder.clauses)
    /\ encoder.literals = << >> => encoder.clauses = << << >> >>
    /\ encoder.tseitin - encoder.first
         = IF Len(encoder.literals) <= 4 THEN 0
           ELSE (Len(encoder.literals) - 3) \div 2

\* An XOR clause of seven literals was encoded with two Tseitin variables.
C15_Witness ==
  /\ encoder.status = "encoded"
  /\ Len(encoder.literals) = 7
  /\ encoder.tseitin = encoder.first + 2

(***************************************************************************)
(* The radix sort RSORT of 'rsort.h'.  The elements of the sorted stack    *)
(* are the positions 1..N they have before sorting and 'rank' is the       *)
(* ranking function RANK.  A byte has 'ByteBits' bits instead of 8 and the *)
(* ranking type RTYPE 'SizeofRank' bytes.                                  *)
(***************************************************************************)
ByteBits == 2

SizeofRank == 3

MaxN == 4

LENGTH_RANK == ByteBits

WIDTH_RANK == 2 ^ LENGTH_RANK

MASK_RANK == WIDTH_RANK - 1

\* The number of bits of RTYPE, '8 * sizeof (RTYPE)', and its values.
RankBits == ByteBits * SizeofRank

AsRank(x) == x % (2 ^ RankBits)

\* 'a & b' and 'a | b'.
RECURSIVE BitAnd(_, _)
BitAnd(a, b) ==
  IF a = 0 \/ b = 0 THEN 0
  ELSE 2 * BitAnd(a \div 2, b \div 2) + (IF a % 2 = 1 /\ b % 2 = 1 THEN 1 ELSE 0)

RECURSIVE BitOr(_, _)
BitOr(a, b) ==
  IF a = 0 THEN b
  ELSE IF b = 0 THEN a
  ELSE 2 * BitOr(a \div 2, b \div 2) + (IF a % 2 = 1 \/ b % 2 = 1 THEN 1 ELSE 0)

\* 'RANK (*P_RANK)', 'R_RANK >> I_RANK' and 'S_RANK & MASK_RANK' for the
\* element at position p of the array C_RANK points to.
Array(s) == IF s.C = "A" THEN s.V ELSE s.TMP

R_RANK(s, p) == s.rank[Array(s)[p]]

M_RANK(s, p) == BitAnd(R_RANK(s, p) \div (2 ^ s.I), MASK_RANK)

\* 'CHECK_RANKED (N, V, RANK)'.
CHECK_RANKED(s) ==
  \A i \in 1..(s.N - 1) : s.rank[s.V[i]] <= s.rank[s.V[i + 1]]

\* The locals of RSORT before its loop over the radix positions; the
\* counters and the temporary space start with whatever they hold.
sort_locals(s) ==
  [ s EXCEPT !.status = "rounds",
             !.COUNT = [ j \in 0..MASK_RANK |-> s.garbage ],
             !.TMP = << >>, !.C = "A",
             !.MLOWER = 0, !.MUPPER = MASK_RANK,
             !.BOUNDED = FALSE, !.UPPER = 0, !.LOWER = AsRank(-1),
             !.SHIFT = MASK_RANK, !.I = 0 ]

\* 'if (N_RANK <= 1) break;'
sort_begin(s) ==
  IF s.N <= 1 THEN [ s EXCEPT !.status = "sorted" ] ELSE sort_locals(s)

\* 'I_RANK += LENGTH_RANK, SHIFT_RANK <<= LENGTH_RANK'.
next_round(s) ==
  [ s EXCEPT !.I = @ + LENGTH_RANK, !.SHIFT = AsRank(@ * WIDTH_RANK) ]

\* '(LOWER_RANK & SHIFT_RANK) == (UPPER_RANK & SHIFT_RANK)'.
same_radix(s) == BitAnd(s.LOWER, s.SHIFT) = BitAnd(s.UPPER, s.SHIFT)

\* 'memset (COUNT_RANK + MLOWER_RANK, 0, ...)' and the locals of a round.
clear_counters(s) ==
  [ s EXCEPT !.COUNT = [ j \in 0..MASK_RANK |->
                           IF s.MLOWER <= j /\ j <= s.MUPPER THEN 0
                           ELSE s.COUNT[j] ],
             !.SORTED = TRUE, !.LAST = 0 ]

\* The body of the loop that counts, for the element at position p.
count_element(s, p) ==
  [ s EXCEPT !.LOWER = IF s.BOUNDED THEN @ ELSE BitAnd(@, R_RANK(s, p)),
             !.UPPER = IF s.BOUNDED THEN @ ELSE BitOr(@, R_RANK(s, p)),
             !.SORTED = IF @ /\ s.LAST > M_RANK(s, p) THEN FALSE ELSE @,
             !.LAST = IF s.SORTED /\ s.LAST > M_RANK(s, p) THEN @
                      ELSE M_RANK(s, p),
             !.COUNT[M_RANK(s, p)] = @ + 1 ]

RECURSIVE count_from(_, _)
count_from(s, p) ==
  IF p > s.N THEN s ELSE count_from(count_element(s, p), p + 1)

\* 'MLOWER_RANK = ...; MUPPER_RANK = ...'.
radix_bounds(s) ==
  [ s EXCEPT !.MLOWER = BitAnd(s.LOWER \div (2 ^ s.I), MASK_RANK),
             !.MUPPER = BitAnd(s.UPPER \div (2 ^ s.I), MASK_RANK) ]

\* The starting positions of the elements of each radix.
RECURSIVE positions_from(_, _, _)
positions_from(s, j, POS_RANK) ==
  IF j > s.MUPPER THEN s
  ELSE positions_from([ s EXCEPT !.COUNT[j] = POS_RANK ], j + 1,
                      POS_RANK + s.COUNT[j])

\* 'if (!TMP_RANK) TMP_RANK = malloc (BYTES_TMP_RANK)'.
allocated(s) ==
  IF s.TMP = << >> THEN [ s EXCEPT !.TMP = [ i \in 1..s.N |-> s.garbage ] ]
  ELSE s

\* 'POS_RANK = COUNT_RANK[M_RANK]++; D_RANK[POS_RANK] = *P_RANK;' with
\* D_RANK the array C_RANK does not point to.
distribute_element(s, p) ==
  IF s.C = "A"
  THEN [ s EXCEPT !.TMP[s.COUNT[M_RANK(s, p)] + 1] = s.V[p],
                  !.COUNT[M_RANK(s, p)] = @ + 1 ]
  ELSE [ s EXCEPT !.V[s.COUNT[M_RANK(s, p)] + 1] = s.TMP[p],
                  !.COUNT[M_RANK(s, p)] = @ + 1 ]

\* A distribution that starts with the last element.
RECURSIVE distribute_from_end(_, _)
distribute_from_end(s, p) ==
  IF p > s.N THEN s
  ELSE distribute_from_end(distribute_element(s, s.N + 1 - p), p + 1)

RECURSIVE distribute_from(_, _)
distribute_from(s, p) ==
  IF p > s.N THEN s ELSE distribute_from(distribute_element(s, p), p + 1)

\* 'C_RANK = D_RANK'.
switched(s) ==
  [ s EXCEPT !.C = IF @ = "A" THEN "B" ELSE "A",
             !.distributed = @ + 1 ]

distribute(s) ==
  switched(distribute_from(allocated(positions_from(s, s.MLOWER, 0)), 1))

\* 'if (SORTED_RANK) continue;'
sorted_round(s) ==
  IF s.SORTED THEN [ s EXCEPT !.partial = @ + 1 ] ELSE distribute(s)

\* 'if (!BOUNDED_RANK) { BOUNDED_RANK = true; if (...) continue; }'
first_round(s) ==
  IF s.BOUNDED THEN sorted_round(s)
  ELSE IF same_radix(s)
  THEN [ s EXCEPT !.BOUNDED = TRUE, !.partial = @ + 1 ]
  ELSE sorted_round([ s EXCEPT !.BOUNDED = TRUE ])

\* A round of the loop over the radix positions that is not skipped.
round(s) == first_round(radix_bounds(count_from(clear_counters(s), 1)))

\* A sort that leaves the result where the last round put it.
copy_back_never(s) == s

\* 'if (C_RANK == B_RANK) memcpy (A_RANK, B_RANK, ...)'.
copy_back(s) == IF s.C = "B" THEN [ s EXCEPT !.V = s.TMP ] ELSE s

\* After the loop: the copy, 'free (TMP_RANK)' and CHECK_RANKED, which
\* fails an assertion unless NDEBUG is defined.
sort_end(s) ==
  IF ~s.ndebug /\ ~CHECK_RANKED(copy_back(s))
  THEN [ copy_back(s) EXCEPT !.status = "assertion failed", !.TMP = << >> ]
  ELSE [ copy_back(s) EXCEPT !.status = "sorted", !.TMP = << >> ]

\* The ranks of the elements: with equal and different radixes at each
\* position.
Ranks == { 0, 1, 2, 4, 5, 16, 17, 33, 63 }

InitSort ==
  /\ CheckerIdle
  /\ parser = NotRunning
  /\ encoder = NotRunning
  /\ \E N \in 0..MaxN, garbage \in 0..1, ndebug \in BOOLEAN :
       \E rank \in [ 1..N -> Ranks ] :
         sorter = [ status |-> "start", N |-> N, rank |-> rank,
                    garbage |-> garbage, ndebug |-> ndebug,
                    V |-> [ i \in 1..N |-> i ],
                    COUNT |-> << >>, TMP |-> << >>, C |-> "A",
                    MLOWER |-> 0, MUPPER |-> 0, BOUNDED |-> FALSE,
                    UPPER |-> 0, LOWER |-> 0, SHIFT |-> 0, I |-> 0,
                    SORTED |-> TRUE, LAST |-> 0,
                    skipped |-> 0, partial |-> 0, distributed |-> 0 ]
  /\ generator = NotRunning
  /\ combi = NotRunning

Sorted(s) ==
  /\ sorter' = s
  /\ UNCHANGED << checker_vars, parser, encoder, generator, combi >>

SortBegin ==
  /\ sorter.status = "start"
  /\ Sorted(sort_begin(sorter))

SkipRound ==
  /\ sorter.status = "rounds"
  /\ sorter.I < RankBits
  /\ sorter.BOUNDED /\ same_radix(sorter)
  /\ Sorted(next_round([ sorter EXCEPT !.skipped = @ + 1 ]))

Round ==
  /\ sorter.status = "rounds"
  /\ sorter.I < RankBits
  /\ ~(sorter.BOUNDED /\ same_radix(sorter))
  /\ Sorted(next_round(round(sorter)))

SortEnd ==
  /\ sorter.status = "rounds"
  /\ sorter.I >= RankBits
  /\ Sorted(sort_end(sorter))

NextSort == SortBegin \/ SkipRound \/ Round \/ SortEnd

SpecSort == InitSort /\ [][NextSort]_vars

\* C16: after RSORT the stack holds every element it held before exactly
\* once, in the array it was in, with ranks that do not decrease, whatever
\* rounds were skipped; the assertion of CHECK_RANKED never fails.
C16_SortedPermutation ==
  /\ sorter.status # "assertion failed"
  /\ sorter.status = "sorted" =>
       /\ Len(sorter.V) = sorter.N
       /\ \A e \in 1..sorter.N :
            Cardinality({ i \in 1..sorter.N : sorter.V[i] = e }) = 1
       /\ \A i, j \in 1..sorter.N :
            i < j => sorter.rank[sorter.V[i]] <= sorter.rank[sorter.V[j]]

\* A stack out of order was sorted with a round skipped, a round ended
\* after counting and the result copied back from the temporary space.
C16_Witness ==
  /\ sorter.status = "sorted"
  /\ sorter.skipped >= 1
  /\ sorter.partial >= 1
  /\ sorter.distributed = 1
  /\ sorter.V # [ i \in 1..sorter.N |-> i ]

\* C17: RSORT is stable: elements of equal rank are after sorting in the
\* order they were in before.
C17_Stable ==
  sorter.status = "sorted" =>
    \A i, j \in 1..sorter.N :
      (i < j /\ sorter.rank[sorter.V[i]] = sorter.rank[sorter.V[j]])
        => sorter.V[i] < sorter.V[j]

\* Elements of equal rank were moved by two distributions and kept their
\* order.
C17_Witness ==
  /\ sorter.status = "sorted"
  /\ sorter.distributed >= 2
  /\ \E i \in 1..(sorter.N - 1) :
       /\ sorter.rank[sorter.V[i]] = sorter.rank[sorter.V[i + 1]]
       /\ sorter.V[i] # i
       /\ sorter.V[i + 1] = sorter.V[i] + 1

(***************************************************************************)
(* The generator of the feature files, 'features/generate.c', run without  *)
(* file arguments.  The rows of the three '.csv' files are its input: an   *)
(* option is the sequence of the characters after its prefix '--no-', a    *)
(* pair the positions of its two options in 'features.csv' (a position     *)
(* beyond its rows is an option that is not listed).  Usage texts and the  *)
(* roots, leafs and singletons, which are only reported, are left out.     *)
(***************************************************************************)
MaxFeatures == 3

MaxImplied == 3

MaxClashing == 1

\* The codes of the characters of the options.
Code(ch) == CASE ch = "-" -> 45 [] ch = "a" -> 97 [] ch = "b" -> 98
              [] ch = "c" -> 99

\* The sign of 'strcmp (a, b)'.
RECURSIVE strcmp(_, _)
strcmp(a, b) ==
  IF a = << >> /\ b = << >> THEN 0
  ELSE IF a = << >> THEN -1
  ELSE IF b = << >> THEN 1
  ELSE IF Code(Head(a)) < Code(Head(b)) THEN -1
  ELSE IF Code(Head(a)) > Code(Head(b)) THEN 1
  ELSE strcmp(Tail(a), Tail(b))

\* 'option_to_name': the option without its prefix and its dashes.
RECURSIVE option_to_name(_)
option_to_name(option) ==
  IF option = << >> THEN << >>
  ELSE IF Head(option) = "-" THEN option_to_name(Tail(option))
  ELSE << Head(option) >> \o option_to_name(Tail(option))

\* 'exit (1)' after a message, and a warning, which is one in pedantic mode.
generate_error(g, msg) == [ g EXCEPT !.status = "exit 1", !.message = msg ]

generate_warning(g, msg) ==
  IF g.pedantic THEN generate_error(g, msg)
  ELSE [ g EXCEPT !.warnings = Append(@, msg) ]

Exited(g) == g.status \in { "exit 0", "exit 1" }

\* 'read_feature_usage' and the body of the loop of 'read_features' for
\* the option of one row.
unsorted_feature(g, option) ==
  IF g.options # << >> /\ strcmp(g.options[Len(g.options)], option) > 0
  THEN generate_warning(g, "feature unsorted")
  ELSE g

feature_pushed(g, option) ==
  IF Exited(g) THEN g
  ELSE [ g EXCEPT !.options = Append(@, option),
                  !.names = Append(@, option_to_name(option)) ]

read_feature_usage(g, option) ==
  IF \E i \in DOMAIN g.options : g.options[i] = option
  THEN generate_error(g, "duplicated feature")
  ELSE feature_pushed(unsorted_feature(g, option), option)

RECURSIVE read_features_from(_, _)
read_features_from(g, row) ==
  IF Exited(g) \/ row > Len(g.features_csv) THEN g
  ELSE read_features_from(read_feature_usage(g, g.features_csv[row]), row + 1)

read_features(g) == read_features_from(g, 1)

\* 'find_pair'.
find_pair(pairs, pair) == \E i \in DOMAIN pairs : pairs[i] = pair

swapped(pair) == << pair[2], pair[1] >>

\* The order of two pairs by the options of their features.
pair_unsorted(g, prev, pair) ==
  \/ strcmp(g.options[prev[1]], g.options[pair[1]]) > 0
  \/ /\ strcmp(g.options[prev[1]], g.options[pair[1]]) = 0
     /\ strcmp(g.options[prev[2]], g.options[pair[2]]) > 0

\* The body of the loop of 'read_pairs' for 'clashing.csv'.
clashing_unsorted(g, pairs, pair) ==
  IF pairs # << >> /\ pair_unsorted(g, pairs[Len(pairs)], pair)
  THEN generate_warning(g, "pair unsorted")
  ELSE g

clashing_implied(g, pairs, pair) ==
  IF Exited(g) THEN g
  ELSE IF find_pair(g.implied, pair)
  THEN generate_error(g, "pair already in 'implied.csv'")
  ELSE IF find_pair(g.implied, swapped(pair))
  THEN generate_error(g, "pair occurs already swapped in 'implied.csv'")
  ELSE clashing_unsorted(g, pairs, pair)

clashing_pair(g, pairs, pair) ==
  IF strcmp(g.options[pair[1]], g.options[pair[2]]) >= 0
  THEN clashing_implied(generate_warning(g, "features in pair unsorted"),
                        pairs, pair)
  ELSE clashing_implied(g, pairs, pair)

\* The body of the loop of 'read_pairs' for 'implied.csv'.
implied_pair(g, pairs, pair) ==
  IF pairs # << >> /\ pair_unsorted(g, pairs[Len(pairs)], pair)
  THEN generate_warning(g, "pair unsorted")
  ELSE g

\* 'read_pair' and the tests of 'read_pairs' on the pair of one row.
read_pair(g, pairs, pair, is_clashing) ==
  IF pair[1] > Len(g.options) \/ pair[2] > Len(g.options)
  THEN generate_error(g, "feature not listed in 'features.csv'")
  ELSE IF find_pair(pairs, pair)
  THEN generate_error(g, "pair already occurs")
  ELSE IF find_pair(pairs, swapped(pair))
  THEN generate_error(g, "pair occurs already swapped")
  ELSE IF is_clashing THEN clashing_pair(g, pairs, pair)
  ELSE implied_pair(g, pairs, pair)

\* '*size_ptr += 1' after the tests.
implied_pushed(g, pair) ==
  IF Exited(g) THEN g ELSE [ g EXCEPT !.implied = Append(@, pair) ]

clashing_pushed(g, pair) ==
  IF Exited(g) THEN g ELSE [ g EXCEPT !.clashing = Append(@, pair) ]

RECURSIVE read_implied_from(_, _)
read_implied_from(g, row) ==
  IF Exited(g) \/ row > Len(g.implied_csv) THEN g
  ELSE read_implied_from(
         implied_pushed(read_pair(g, g.implied, g.implied_csv[row], FALSE),
                        g.implied_csv[row]), row + 1)

RECURSIVE read_clashing_from(_, _)
read_clashing_from(g, row) ==
  IF Exited(g) \/ row > Len(g.clashing_csv) THEN g
  ELSE read_clashing_from(
         clashing_pushed(read_pair(g, g.clashing, g.clashing_csv[row], TRUE),
                         g.clashing_csv[row]), row + 1)

\* 'init_transitively_implies'.
init_transitively_implies(g) ==
  [ g EXCEPT !.transitively_implied =
               { g.implied[i] : i \in DOMAIN g.implied } ]

\* 'check_transitively_implied (src, dst, except)' with the features
\* reached so far: whether 'dst' was found and the features reached.
RECURSIVE check_transitively_implied(_, _, _, _, _)
RECURSIVE check_implied_from(_, _, _, _, _, _)
check_implied_next(g, src, dst, except, found, i) ==
  IF found.found THEN found
  ELSE check_implied_from(g, src, dst, except, found.reached, i + 1)

check_implied_from(g, src, dst, except, reached, i) ==
  IF i > Len(g.options) THEN [ found |-> FALSE, reached |-> reached ]
  ELSE IF /\ src # except \/ i # dst
          /\ i \notin reached
          /\ << src, i >> \in g.transitively_implied
  THEN check_implied_next(g, src, dst, except,
         check_transitively_implied(g, i, dst, except, reached \cup { i }), i)
  ELSE check_implied_from(g, src, dst, except, reached, i + 1)

check_transitively_implied(g, src, dst, except, reached) ==
  IF src = dst THEN [ found |-> TRUE, reached |-> reached ]
  ELSE check_implied_from(g, src, dst, except, reached, 1)

\* 'check_transitive_impliedness'.
RECURSIVE check_transitive_impliedness_from(_, _)
check_transitive_impliedness_from(g, i) ==
  IF Exited(g) \/ i > Len(g.implied) THEN g
  ELSE IF check_transitively_implied(g, g.implied[i][1], g.implied[i][2],
                                     g.implied[i][1], { }).found
  THEN check_transitive_impliedness_from(
         generate_warning(g, "implied pair transitively implied"), i + 1)
  ELSE check_transitive_impliedness_from(g, i + 1)

check_transitive_impliedness(g) == check_transitive_impliedness_from(g, 1)

\* The body of the loops of 'transitive_hull' over i, j and k: the
\* matrix and whether it changed.
hull_step(h, i, j, k) ==
  IF << i, j >> \in h.matrix /\ << j, k >> \in h.matrix
       /\ << i, k >> \notin h.matrix
  THEN [ matrix |-> h.matrix \cup { << i, k >> }, changed |-> TRUE ]
  ELSE h

\* The loops over k, over j and over i.
RECURSIVE hull_k(_, _, _, _, _)
hull_k(h, n, i, j, k) ==
  IF k > n THEN h ELSE hull_k(hull_step(h, i, j, k), n, i, j, k + 1)

RECURSIVE hull_j(_, _, _, _)
hull_j(h, n, i, j) ==
  IF j > n THEN h ELSE hull_j(hull_k(h, n, i, j, 1), n, i, j + 1)

RECURSIVE hull_i(_, _, _)
hull_i(h, n, i) ==
  IF i > n THEN h ELSE hull_i(hull_j(h, n, i, 1), n, i + 1)

\* A hull that looks at each triple of features once.
hull_once(h, n) == h

\* 'do { changed = false; ... } while (changed)'.
RECURSIVE hull_iterations(_, _)
hull_while(h, n) == IF h.changed THEN hull_iterations(h.matrix, n) ELSE h

hull_iterations(matrix, n) ==
  hull_while(hull_i([ matrix |-> matrix, changed |-> FALSE ], n, 1), n)

transitive_hull(g) ==
  [ g EXCEPT !.transitively_implied =
               hull_iterations(@, Len(g.options)).matrix ]

\* 'check_cyclic_dependencies'.
RECURSIVE check_cyclic_dependencies_from(_, _)
check_cyclic_dependencies_from(g, i) ==
  IF Exited(g) \/ i > Len(g.options) THEN g
  ELSE IF << i, i >> \in g.transitively_implied
  THEN check_cyclic_dependencies_from(
         generate_warning(g, "option implies itself recursively"), i + 1)
  ELSE check_cyclic_dependencies_from(g, i + 1)

check_cyclic_dependencies(g) == check_cyclic_dependencies_from(g, 1)

\* 'check_clashing_not_transitively_implied'.
RECURSIVE check_clashing_from(_, _)
check_clashing_from(g, i) ==
  IF Exited(g) \/ i > Len(g.clashing) THEN g
  ELSE IF g.clashing[i] \in g.transitively_implied
  THEN generate_error(g, "pair transitively implied")
  ELSE IF swapped(g.clashing[i]) \in g.transitively_implied
  THEN generate_error(g, "pair reverse transitively implied")
  ELSE check_clashing_from(g, i + 1)

check_clashing_not_transitively_implied(g) == check_clashing_from(g, 1)

\* 'push_invalid_pair'.
push_invalid_pair(g, i, j) ==
  IF strcmp(g.names[i], g.names[j]) > 0
  THEN [ g EXCEPT !.invalid = Append(@, << j, i >>) ]
  ELSE [ g EXCEPT !.invalid = Append(@, << i, j >>) ]

\* 'cmp_invalid'.
cmp_invalid(g, p, q) ==
  IF strcmp(g.names[p[1]], g.names[q[1]]) # 0
  THEN strcmp(g.names[p[1]], g.names[q[1]])
  ELSE strcmp(g.names[p[2]], g.names[q[2]])

\* The loops of 'sort_invalid_feature_pairs' that push the pairs.
RECURSIVE push_implied_from(_, _, _)
push_implied_from(g, i, j) ==
  IF i > Len(g.options) THEN g
  ELSE IF j > Len(g.options) THEN push_implied_from(g, i + 1, 1)
  ELSE IF << i, j >> \in g.transitively_implied
  THEN push_implied_from(push_invalid_pair(g, i, j), i, j + 1)
  ELSE push_implied_from(g, i, j + 1)

RECURSIVE push_clashing_from(_, _)
push_clashing_from(g, i) ==
  IF i > Len(g.clashing) THEN g
  ELSE push_clashing_from(
         push_invalid_pair(g, g.clashing[i][1], g.clashing[i][2]), i + 1)

pushed_invalid(g) == push_clashing_from(push_implied_from(g, 1, 1), 1)

\* The arrays 'qsort' may leave: those with the elements of 'pairs' in an
\* order that 'cmp_invalid' does not decrease in; the order of elements
\* that compare equal is unspecified.
qsort_inserted(g, array, pair) ==
  { SubSeq(array, 1, k) \o << pair >> \o SubSeq(array, k + 1, Len(array)) :
      k \in { k \in 0..Len(array) :
                /\ k = 0 \/ cmp_invalid(g, array[k], pair) <= 0
                /\ k = Len(array) \/ cmp_invalid(g, pair, array[k + 1]) <= 0 } }

RECURSIVE qsort(_, _)
qsort(g, pairs) ==
  IF pairs = << >> THEN { << >> }
  ELSE UNION { qsort_inserted(g, array, pairs[Len(pairs)]) :
                 array \in qsort(g, SubSeq(pairs, 1, Len(pairs) - 1)) }

\* 'generate_invalid_h': the options of the pairs, line by line.
generate_invalid_h(g) ==
  [ i \in DOMAIN g.invalid |->
      << g.options[g.invalid[i][1]], g.options[g.invalid[i][2]] >> ]

\* The files of features: with names in another order than the options,
\* with options of the same name, and unsorted.
FeatureFiles ==
  { << << "a", "-", "c" >>, << "a", "b" >>, << "b" >> >>,
    << << "a", "-", "b" >>, << "a", "b" >>, << "b" >> >>,
    << << "b" >>, << "a" >> >> }

\* The files of at most n pairs.
Rows == (1..MaxFeatures) \X (1..MaxFeatures)

PairFiles(n) == UNION { [ 1..m -> Rows ] : m \in 0..n }

\* The steps of 'main' after its arguments, in their order.
Steps ==
  << "read_features", "read_implied", "read_clashing",
     "check_transitive_impliedness", "transitive_hull",
     "check_cyclic_dependencies", "check_clashing_not_transitively_implied",
     "sort_invalid_feature_pairs", "generate_all" >>

\* The step after the one done, unless the run has ended.
step_done(g) ==
  IF Exited(g) THEN g
  ELSE [ g EXCEPT !.status =
           Steps[1 + CHOOSE i \in DOMAIN Steps : Steps[i] = g.status] ]

InitGenerate ==
  /\ CheckerIdle
  /\ parser = NotRunning
  /\ encoder = NotRunning
  /\ sorter = NotRunning
  /\ \E pedantic \in BOOLEAN, features_csv \in FeatureFiles,
        implied_csv \in PairFiles(MaxImplied),
        clashing_csv \in PairFiles(MaxClashing) :
       generator = [ status |-> "read_features", message |-> "",
                     pedantic |-> pedantic, features_csv |-> features_csv,
                     implied_csv |-> implied_csv,
                     clashing_csv |-> clashing_csv,
                     options |-> << >>, names |-> << >>,
                     implied |-> << >>, clashing |-> << >>,
                     transitively_implied |-> { }, invalid |-> << >>,
                     warnings |-> << >>, generated |-> { },
                     invalid_h |-> << >> ]
  /\ combi = NotRunning

Generated(g) ==
  /\ generator' = g
  /\ UNCHANGED << checker_vars, parser, encoder, sorter, combi >>

ReadFeatures ==
  /\ generator.status = "read_features"
  /\ Generated(step_done(read_features(generator)))

ReadImplied ==
  /\ generator.status = "read_implied"
  /\ Generated(step_done(read_implied_from(generator, 1)))

ReadClashing ==
  /\ generator.status = "read_clashing"
  /\ Generated(step_done(
       init_transitively_implies(read_clashing_from(generator, 1))))

CheckTransitiveImpliedness ==
  /\ generator.status = "check_transitive_impliedness"
  /\ Generated(step_done(check_transitive_impliedness(generator)))

TransitiveHull ==
  /\ generator.status = "transitive_hull"
  /\ Generated(step_done(transitive_hull(generator)))

CheckCyclicDependencies ==
  /\ generator.status = "check_cyclic_dependencies"
  /\ Generated(step_done(check_cyclic_dependencies(generator)))

CheckClashing ==
  /\ generator.status = "check_clashing_not_transitively_implied"
  /\ Generated(step_done(check_clashing_not_transitively_implied(generator)))

SortInvalidFeaturePairs ==
  /\ generator.status = "sort_invalid_feature_pairs"
  /\ \E sorted \in qsort(generator, pushed_invalid(generator).invalid) :
       Generated(step_done([ generator EXCEPT !.invalid = sorted ]))

\* 'generate_all' and the end of 'main'.
GenerateAll ==
  /\ generator.status = "generate_all"
  /\ Generated([ generator EXCEPT
                   !.status = "exit 0",
                   !.generated = { "init.sh", "only.sh", "parse.sh",
                                   "usage.sh", "check.sh", "define.sh",
                                   "version.h", "check.h", "init.h",
                                   "list.h", "invalid.h", "diagnose.h" },
                   !.invalid_h = generate_invalid_h(generator) ])

NextGenerate ==
  \/ ReadFeatures
  \/ ReadImplied
  \/ ReadClashing
  \/ CheckTransitiveImpliedness
  \/ TransitiveHull
  \/ CheckCyclicDependencies
  \/ CheckClashing
  \/ SortInvalidFeaturePairs
  \/ GenerateAll

SpecGenerate == InitGenerate /\ [][NextGenerate]_vars

\* The pairs of features a path of one to n pairs of R leads from the
\* first to the second of.
RECURSIVE Paths(_, _)
Paths(R, n) ==
  IF n <= 1 THEN R
  ELSE R \cup { << p[1], q[2] >> :
                  << p, q >> \in { pq \in Paths(R, n - 1) \X R :
                                     pq[1][2] = pq[2][1] } }

\* The features reachable over the implied pairs read, and the features
\* of the pairs of a sequence without their order.
Reachable == Paths({ generator.implied[i] : i \in DOMAIN generator.implied },
                   Len(generator.options))

Unordered(pairs) == { { p[1], p[2] } : p \in pairs }

Elements(pairs) == { pairs[i] : i \in DOMAIN pairs }

\* The steps after the transitive hull.
AfterHull ==
  { "check_cyclic_dependencies", "check_clashing_not_transitively_implied",
    "sort_invalid_feature_pairs", "generate_all", "exit 0" }

C19_CyclicRejected ==
  generator.generated # { } =>
    \A i \in DOMAIN generator.options : << i, i >> \notin Reachable

(***************************************************************************)
(* The generator of configurations, 'gencombi.c', for one frame: the       *)
(* tables of valid and required pairs, the clauses 'encode (k)' hands to   *)
(* the solver of the frame, a result of the solver and the configurations  *)
(* printed.  The options are 1..n and the configurations 1..k (0..n-1 and  *)
(* 0..k-1 in the code); the lists compiled into the program are inputs.    *)
(***************************************************************************)
MaxOptions == 3

MaxK == 3

\* The largest number of variables 'option[i][p]' of a frame.
MaxOptionVariables == 6

initial_conflict_limit == 100

\* The sequences of a sequence, one after the other.
RECURSIVE FlattenFrom(_, _)
FlattenFrom(seqs, i) ==
  IF i > Len(seqs) THEN << >> ELSE seqs[i] \o FlattenFrom(seqs, i + 1)

Flatten(seqs) == FlattenFrom(seqs, 1)

\* 'filter_incompatible' and 'filter_requires' on the lists compiled in.
filter_incompatible(c, a, b) ==
  << a, b >> \in c.incompatible \/ << b, a >> \in c.incompatible

filter_requires(c, a, b) == << a, b >> \in c.requires

\* 'init_needs': the tables 'needs' and 'needed'; more than one required
\* option is an error.
init_needs(c) ==
  IF \E p \in 1..c.n :
       Cardinality({ q \in 1..c.n : filter_requires(c, p, q) }) > 1
  THEN [ c EXCEPT !.status = "exit 1" ]
  ELSE [ c EXCEPT
           !.needs = { pq \in (1..c.n) \X (1..c.n) :
                         filter_requires(c, pq[1], pq[2]) },
           !.needed = [ p \in 1..c.n |->
                          Cardinality({ q \in 1..c.n :
                                          filter_requires(c, p, q) }) ] ]

\* The body of the loops of 'init_valid' over p, q and r: the table
\* 'valid' and whether it changed.
forced_step(c, v, p, q, r) ==
  IF /\ p # r
     /\ << q, r >> \notin v.valid
     /\ << p, r >> \in v.valid
  THEN [ valid |-> v.valid \ { << p, r >>, << r, p >> }, changed |-> TRUE ]
  ELSE v

RECURSIVE forced_r(_, _, _, _, _)
forced_r(c, v, p, q, r) ==
  IF r > c.n THEN v ELSE forced_r(c, forced_step(c, v, p, q, r), p, q, r + 1)

RECURSIVE forced_q(_, _, _, _)
forced_q(c, v, p, q) ==
  IF q > c.n THEN v
  ELSE IF << p, q >> \notin c.needs THEN forced_q(c, v, p, q + 1)
  ELSE forced_q(c, forced_r(c, v, p, q, 1), p, q + 1)

RECURSIVE forced_p(_, _, _)
forced_p(c, v, p) ==
  IF p > c.n THEN v
  ELSE IF c.needed[p] = 0 THEN forced_p(c, v, p + 1)
  ELSE forced_p(c, forced_q(c, v, p, 1), p + 1)

\* 'do { changed = 0; ... } while (changed)'.
RECURSIVE forced_rounds(_, _)
forced_while(c, v) == IF v.changed THEN forced_rounds(c, v.valid) ELSE v

forced_rounds(c, valid_) ==
  forced_while(c, forced_p(c, [ valid |-> valid_, changed |-> FALSE ], 1))

\* 'init_valid'.
init_valid(c) ==
  [ c EXCEPT !.valid =
      forced_rounds(c, { pq \in (1..c.n) \X (1..c.n) :
                           ~filter_incompatible(c, pq[1], pq[2]) }).valid ]

\* The pairs p < q in the order of the loops over them, and the valid
\* ones.
Pairs(c) ==
  Flatten([ p \in 1..(c.n - 1) |-> [ j \in 1..(c.n - p) |-> << p, p + j >> ] ])

ValidPairs(c) == { pq \in c.valid : pq[1] < pq[2] }

\* The variables 'option[i][p]', 'pair[i][p][q]' and 'sorted[i][p]' in
\* the order 'encode' numbers them with '++nvars'.
option(c, i, p) == (i - 1) * c.n + p

pair(c, i, p, q) ==
  c.k * c.n + (i - 1) * Cardinality(ValidPairs(c))
    + Cardinality({ r \in ValidPairs(c) :
                      r[1] < p \/ (r[1] = p /\ r[2] <= q) })

sorted(c, i, p) ==
  c.k * c.n + c.k * Cardinality(ValidPairs(c)) + (i - 2) * (c.n - 1) + (p - 1)

nvars(c) ==
  c.k * c.n + c.k * Cardinality(ValidPairs(c))
    + (IF c.unsorted THEN 0 ELSE (c.k - 1) * (c.n - 1))

\* Sorting clauses that let the last option be the same in both
\* configurations.
sorting_non_strict(c, i) ==
  << << option(c, i - 1, 1), 0 - option(c, i, 1) >>,
     << option(c, i - 1, 1), sorted(c, i, 2) >>,
     << 0 - option(c, i, 1), sorted(c, i, 2) >> >>
  \o Flatten([ j \in 1..(c.n - 2) |->
       << << 0 - sorted(c, i, j + 1), option(c, i - 1, j + 1),
             0 - option(c, i, j + 1) >>,
          << 0 - sorted(c, i, j + 1), option(c, i - 1, j + 1),
             sorted(c, i, j + 2) >>,
          << 0 - sorted(c, i, j + 1), 0 - option(c, i, j + 1),
             sorted(c, i, j + 2) >> >> ])
  \o << << 0 - sorted(c, i, c.n), option(c, i - 1, c.n),
           0 - option(c, i, c.n) >> >>

\* The clauses that sort configuration i after configuration i - 1.
sorting(c, i) ==
  << << option(c, i - 1, 1), 0 - option(c, i, 1) >>,
     << option(c, i - 1, 1), sorted(c, i, 2) >>,
     << 0 - option(c, i, 1), sorted(c, i, 2) >> >>
  \o Flatten([ j \in 1..(c.n - 2) |->
       << << 0 - sorted(c, i, j + 1), option(c, i - 1, j + 1),
             0 - option(c, i, j + 1) >>,
          << 0 - sorted(c, i, j + 1), option(c, i - 1, j + 1),
             sorted(c, i, j + 2) >>,
          << 0 - sorted(c, i, j + 1), 0 - option(c, i, j + 1),
             sorted(c, i, j + 2) >> >> ])
  \o << << 0 - sorted(c, i, c.n), option(c, i - 1, c.n) >>,
        << 0 - sorted(c, i, c.n), 0 - option(c, i, c.n) >> >>

encode_sorting(c) ==
  IF c.unsorted THEN << >>
  ELSE Flatten([ j \in 1..(c.k - 1) |-> sorting(c, j + 1) ])

\* A definition of the variable of a pair that lets the pair be false
\* when both its options are enabled.
pair_without_ternary(c, i, pq) ==
  IF pq \in c.valid
  THEN << << 0 - pair(c, i, pq[1], pq[2]), option(c, i, pq[1]) >>,
          << 0 - pair(c, i, pq[1], pq[2]), option(c, i, pq[2]) >> >>
  ELSE << << 0 - option(c, i, pq[1]), 0 - option(c, i, pq[2]) >> >>

\* The clauses of the pair pq in configuration i: the definition of its
\* variable if it is valid, the exclusion of its options otherwise.
pair_clauses(c, i, pq) ==
  IF pq \in c.valid
  THEN << << 0 - pair(c, i, pq[1], pq[2]), option(c, i, pq[1]) >>,
          << 0 - pair(c, i, pq[1], pq[2]), option(c, i, pq[2]) >>,
          << 0 - option(c, i, pq[1]), 0 - option(c, i, pq[2]),
             pair(c, i, pq[1], pq[2]) >> >>
  ELSE << << 0 - option(c, i, pq[1]), 0 - option(c, i, pq[2]) >> >>

encode_pairs(c) ==
  Flatten([ i \in 1..c.k |->
    Flatten([ j \in DOMAIN Pairs(c) |-> pair_clauses(c, i, Pairs(c)[j]) ]) ])

\* The clause of the requirement of option p in configuration i.
required_clause(c, i, p) ==
  IF c.needed[p] = 0 THEN << >>
  ELSE << << 0 - option(c, i, p) >>
          \o Flatten([ q \in 1..c.n |->
               IF p # q /\ << p, q >> \in c.needs
               THEN << option(c, i, q) >> ELSE << >> ]) >>

encode_required(c) ==
  Flatten([ i \in 1..c.k |->
    Flatten([ p \in 1..c.n |-> required_clause(c, i, p) ]) ])

\* The clauses for a valid pair to occur and not to occur.
occurrence(c, pq, sign) ==
  IF pq \in c.valid
  THEN << Flatten([ i \in 1..c.k |->
                      << sign * pair(c, i, pq[1], pq[2]) >> ]) >>
  ELSE << >>

encode_positive(c) ==
  Flatten([ j \in DOMAIN Pairs(c) |-> occurrence(c, Pairs(c)[j], 1) ])

encode_negative(c) ==
  IF c.weak THEN << >>
  ELSE Flatten([ j \in DOMAIN Pairs(c) |-> occurrence(c, Pairs(c)[j], -1) ])

\* 'encode (k)': the clauses handed to the solver of the frame.
encode(c) ==
  [ c EXCEPT !.encoded = TRUE,
             !.nvars = nvars(c),
             !.clauses = encode_sorting(c) \o encode_pairs(c)
                           \o encode_required(c) \o encode_positive(c)
                           \o encode_negative(c) ]

\* 'print_solution': the options of each configuration whose variable
\* the solver gives its own value.
print_solution(c) ==
  [ c EXCEPT !.status = "printed",
             !.configs = Flatten([ i \in 1..c.k |->
                           << { p \in 1..c.n :
                                  option(c, i, p) \in c.solution } >> ]) ]

\* The lists compiled in: the incompatible pairs and the requirements.
Incompatibles(n) == SUBSET { pq \in (1..n) \X (1..n) : pq[1] < pq[2] }

Requirements(n) ==
  { r \in { { }, { << 1, 2 >> }, { << 3, 1 >> }, { << 2, 1 >> },
            { << 1, 2 >>, << 2, 3 >> }, { << 1, 2 >>, << 1, 3 >> } } :
      \A pq \in r : pq[1] <= n /\ pq[2] <= n }

InitCombi ==
  /\ CheckerIdle
  /\ parser = NotRunning
  /\ encoder = NotRunning
  /\ sorter = NotRunning
  /\ generator = NotRunning
  /\ \E n \in 2..MaxOptions, k \in 2..MaxK, weak \in BOOLEAN,
        unsorted \in BOOLEAN :
       /\ k * n <= MaxOptionVariables
       /\ \E incompatible \in Incompatibles(n), requires \in Requirements(n) :
            combi = [ status |-> "init", n |-> n, k |-> k, weak |-> weak,
                      unsorted |-> unsorted, incompatible |-> incompatible,
                      requires |-> requires, needs |-> { },
                      needed |-> << >>, valid |-> { }, encoded |-> FALSE,
                      limit |-> 0, nvars |-> 0, clauses |-> << >>,
                      solution |-> { }, configs |-> << >> ]

Combined(c) ==
  /\ combi' = c
  /\ UNCHANGED << checker_vars, parser, encoder, sorter, generator >>

\* 'init_options', 'init_needs' and 'init_valid'.
InitTables ==
  /\ combi.status = "init"
  /\ Combined(IF init_needs(combi).status = "exit 1" THEN init_needs(combi)
              ELSE [ init_valid(init_needs(combi)) EXCEPT !.status = "solve" ])

\* The assignments, as sets of true variables, that satisfy the clauses of
\* an encoded frame.
Models(c) == { a \in SUBSET (1..c.nvars) : Satisfies(a, c.clauses) }

\* 'solve (k)' for a frame not yet solved: the frame is encoded and the
\* solver gives one of its results, with any of the satisfying assignments
\* if there is one.
Solve ==
  /\ combi.status = "solve"
  /\ \/ \E a \in Models(encode(combi)) :
          Combined([ encode(combi) EXCEPT
                       !.status = "SATISFIABLE", !.solution = a,
                       !.limit = initial_conflict_limit ])
     \/ /\ Models(encode(combi)) = {}
        /\ Combined([ encode(combi) EXCEPT
                        !.status = "UNSATISFIABLE",
                        !.limit = initial_conflict_limit ])
     \/ Combined([ encode(combi) EXCEPT
                     !.status = "UNKNOWN", !.limit = initial_conflict_limit ])

PrintSolution ==
  /\ combi.status = "SATISFIABLE"
  /\ Combined(print_solution(combi))

NextCombi == InitTables \/ Solve \/ PrintSolution

SpecCombi == InitCombi /\ [][NextCombi]_vars

\* The invalid pairs of the lists compiled in: the incompatible pairs, in
\* both orders, and the pairs of an option p with an option r that is
\* invalid together with the option p requires.
ForcedOnce(c, inv) ==
  inv \cup { pr \in (1..c.n) \X (1..c.n) :
               \E pq \in c.requires, qr \in inv :
                 /\ pq[2] = qr[1]
                 /\ pr[1] # pr[2]
                 /\ \/ pr = << pq[1], qr[2] >>
                    \/ pr = << qr[2], pq[1] >> }

RECURSIVE ForcedClosure(_, _)
ForcedClosure(c, inv) ==
  IF ForcedOnce(c, inv) = inv THEN inv
  ELSE ForcedClosure(c, ForcedOnce(c, inv))

InvalidPairs(c) ==
  ForcedClosure(c, { pq \in (1..c.n) \X (1..c.n) :
                       filter_incompatible(c, pq[1], pq[2]) })

ValidOptionPairs(c) ==
  { pq \in (1..c.n) \X (1..c.n) :
      pq[1] < pq[2] /\ pq \notin InvalidPairs(c) }

Jointly(c, i, pq) == pq[1] \in c.configs[i] /\ pq[2] \in c.configs[i]

\* C20: the configurations printed for any satisfying assignment of the
\* clauses of 'encode (k)' (i) never enable both options of an invalid
\* pair, incompatible or forced by a requirement, (ii) enable the required
\* option wherever they enable an option with a requirement, and (iii)
\* unless weak mode is set, enable every valid pair jointly in some
\* configuration and not jointly in some configuration.
C20_ConfigurationsCover ==
  combi.status = "printed" =>
    /\ Len(combi.configs) = combi.k
    /\ \A i \in 1..combi.k : \A pq \in InvalidPairs(combi) :
         pq[1] # pq[2] => ~Jointly(combi, i, pq)
    /\ \A i \in 1..combi.k : \A pq \in combi.requires :
         pq[1] \in combi.configs[i] => pq[2] \in combi.configs[i]
    /\ ~combi.weak =>
         \A pq \in ValidOptionPairs(combi) :
           /\ \E i \in 1..combi.k : Jointly(combi, i, pq)
           /\ \E j \in 1..combi.k : ~Jointly(combi, j, pq)

\* Configurations are printed in non-weak mode for lists with a pair a
\* requirement forces to be invalid and a valid pair, and one of them
\* enables the option with the requirement.
C20_Witness ==
  /\ combi.status = "printed"
  /\ ~combi.weak
  /\ \E pq \in InvalidPairs(combi) :
       ~filter_incompatible(combi, pq[1], pq[2])
  /\ ValidOptionPairs(combi) # { }
  /\ \E i \in 1..combi.k : \E pq \in combi.requires :
       pq[1] \in combi.configs[i]

(***************************************************************************)
(* src/gencombi.c in default mode: the search of 'main' for a list of as   *)
(* few configurations as possible, over the frames 'frames[2..]'.          *)
(***************************************************************************)
\* Frames beyond MaxFrames are not solved: the search is cut where it
\* doubles its upper bound beyond MaxFrames.
MaxFrames == 4

\* The results of 'satch_solve'.
UNKNOWN == 0

SATISFIABLE == 10

UNSATISFIABLE == 20

expected_margin == 10

\* The clauses as sets of literals, and what is left of them once a
\* literal is made true.
ClauseSets(clauses_) ==
  { { clauses_[c][i] : i \in DOMAIN clauses_[c] } : c \in DOMAIN clauses_ }

Reduced(S, lit) == { cl \ { 0 - lit } : cl \in { d \in S : lit \notin d } }

\* Some values of the variables v..n satisfy the clauses.
RECURSIVE Solvable(_, _, _)
Solvable(S, v, n) ==
  IF { } \in S THEN FALSE
  ELSE IF S = { } THEN TRUE
  ELSE /\ v <= n
       /\ \/ Solvable(Reduced(S, v), v + 1, n)
          \/ Solvable(Reduced(S, 0 - v), v + 1, n)

\* The formula 'encode (k)' gives the solver of frame k is satisfiable.
Satisfiable(c, k) ==
  Solvable(ClauseSets(encode([ c EXCEPT !.k = k ]).clauses), 1,
           nvars([ c EXCEPT !.k = k ]))

\* What 'satch_solve' may return for frame k: the status of the formula,
\* or UNKNOWN when the conflict limit is reached first.  The statuses of
\* the formulas of all frames are kept in 'formulas' once the tables of the
\* run are there.
Results(c, k) ==
  { UNKNOWN, IF c.formulas[k] THEN SATISFIABLE ELSE UNSATISFIABLE }

formulas(c) == [ k \in DOMAIN c.frames |-> Satisfiable(c, k) ]

\* The conflicts a call of the solver may add to those of its frame.
Conflicts(limit, res) == IF res = UNKNOWN THEN { limit } ELSE { 0, limit }

\* 'memset (frames + nframes, 0, ...)' in 'new_frame'.
new_frame ==
  [ encoded |-> FALSE, released |-> FALSE, limit |-> 0, conflicts |-> 0,
    status |-> UNKNOWN ]

\* 'if (!frame->limit) frame->limit = initial_conflict_limit; else
\* frame->limit *= 2;'.
next_limit(limit) == IF limit = 0 THEN initial_conflict_limit ELSE limit * 2

\* 'solve (k)' where the solver returns 'res' after 'delta' conflicts; the
\* value returned is the status of the frame afterwards.
solve(c, k, res, delta) ==
  IF c.frames[k].status # UNKNOWN THEN c
  ELSE [ c EXCEPT !.frames[k] =
           [ encoded |-> TRUE,
             released |-> c.frames[k].released,
             limit |-> next_limit(c.frames[k].limit),
             conflicts |-> c.frames[k].conflicts + delta,
             status |-> res ] ]

\* The body of the loop of 'update_limits' for frame k.
updated_limit(frame, limit) ==
  IF frame.conflicts > limit
  THEN [ frame EXCEPT !.limit = initial_conflict_limit \div 2 ]
  ELSE [ frame EXCEPT !.limit = (limit - frame.conflicts) \div 2 ]

update_limits(c, ub) ==
  [ c EXCEPT !.frames =
      [ k \in DOMAIN c.frames |->
          IF k < ub
          THEN updated_limit(c.frames[k],
                             expected_margin * c.frames[ub].conflicts)
          ELSE c.frames[k] ] ]

\* The lists compiled in for the runs of the search.
SearchLists ==
  { [ n |-> 2, incompatible |-> { }, requires |-> { } ],
    [ n |-> 2, incompatible |-> { << 1, 2 >> }, requires |-> { } ],
    [ n |-> 2, incompatible |-> { }, requires |-> { << 2, 1 >> } ],
    [ n |-> 3, incompatible |-> { << 1, 3 >> }, requires |-> { } ],
    [ n |-> 3, incompatible |-> { << 2, 3 >> }, requires |-> { << 1, 2 >> } ],
    [ n |-> 4, incompatible |-> { << 1, 3 >>, << 1, 4 >>, << 2, 4 >> },
      requires |-> { } ] }

InitSearch ==
  /\ CheckerIdle
  /\ parser = NotRunning
  /\ encoder = NotRunning
  /\ sorter = NotRunning
  /\ generator = NotRunning
  /\ \E l \in SearchLists, weak \in BOOLEAN, unsorted \in BOOLEAN :
       combi = [ status |-> "init", n |-> l.n, k |-> 0, weak |-> weak,
                 unsorted |-> unsorted, incompatible |-> l.incompatible,
                 requires |-> l.requires, needs |-> { }, needed |-> << >>,
                 valid |-> { }, encoded |-> FALSE, nvars |-> 0,
                 clauses |-> << >>,
                 frames |-> [ k \in 2..MaxFrames |-> new_frame ],
                 formulas |-> << >>, ub |-> 0, lb |-> 0, printed |-> 0 ]

\* 'init_options', 'init_needs', 'init_valid' and 'int ub = 2'.
SearchTables ==
  /\ combi.status = "init"
  /\ Combined(IF init_needs(combi).status = "exit 1" THEN init_needs(combi)
              ELSE [ init_valid(init_needs(combi)) EXCEPT
                       !.status = "upper", !.ub = 2,
                       !.formulas = formulas(init_valid(init_needs(combi))) ])

\* 'update_limits (ub); int lb = 2;' after the first loop.
upper_found(c, ub) ==
  [ update_limits(c, ub) EXCEPT !.status = "lower", !.ub = ub, !.lb = 2 ]

\* A test of the first loop that ends it unless the frame is found
\* unsatisfiable.
upper_unless_unsatisfiable(c) ==
  IF c.frames[c.ub].status # UNSATISFIABLE THEN upper_found(c, c.ub)
  ELSE [ c EXCEPT !.status = "again", !.k = 2 ]

\* 'while (solve (ub) != SATISFIABLE)': the test of the first loop.
upper_solved(c) ==
  IF c.frames[c.ub].status = SATISFIABLE THEN upper_found(c, c.ub)
  ELSE [ c EXCEPT !.status = "again", !.k = 2 ]

SolveUpper ==
  /\ combi.status = "upper"
  /\ \E res \in Results(combi, combi.ub) :
       \E delta \in Conflicts(next_limit(combi.frames[combi.ub].limit), res) :
         Combined(upper_solved(solve(combi, combi.ub, res, delta)))

\* 'if (encoded (k) && solve (k) == SATISFIABLE) break;' and 'if (k < ub)
\* { ub = k; break; }'.
again_solved(c) ==
  IF c.frames[c.k].status = SATISFIABLE THEN upper_found(c, c.k)
  ELSE [ c EXCEPT !.k = @ + 1 ]

\* One round of 'for (k = 2; k < ub; k++)' for an encoded frame.
SolveAgain ==
  /\ combi.status = "again"
  /\ combi.k < combi.ub
  /\ combi.frames[combi.k].encoded
  /\ \E res \in Results(combi, combi.k) :
       \E delta \in Conflicts(next_limit(combi.frames[combi.k].limit), res) :
         Combined(again_solved(solve(combi, combi.k, res, delta)))

\* One round of the loop for a frame that is not encoded.
SkipFrame ==
  /\ combi.status = "again"
  /\ combi.k < combi.ub
  /\ ~combi.frames[combi.k].encoded
  /\ Combined([ combi EXCEPT !.k = @ + 1 ])

\* 'ub *= 2' after the loop over the frames below.
DoubleUpper ==
  /\ combi.status = "again"
  /\ combi.k >= combi.ub
  /\ 2 * combi.ub \in DOMAIN combi.frames
  /\ Combined([ combi EXCEPT !.status = "upper", !.ub = 2 * @ ])

\* A search that takes every frame not found unsatisfiable for an upper
\* bound.
lower_unless_unsatisfiable(c, m) ==
  IF c.frames[m].status # UNSATISFIABLE
  THEN [ update_limits(c, m) EXCEPT !.lb = 2, !.ub = m ]
  ELSE [ c EXCEPT !.lb = m ]

\* 'if (res == SATISFIABLE) { lb = 2; ub = m; update_limits (ub); } else
\* lb = m;'.
lower_solved(c, m) ==
  IF c.frames[m].status = SATISFIABLE
  THEN [ update_limits(c, m) EXCEPT !.lb = 2, !.ub = m ]
  ELSE [ c EXCEPT !.lb = m ]

middle(c) == c.lb + (c.ub - c.lb) \div 2

\* One round of 'while (lb + 1 < ub)'.
SolveMiddle ==
  /\ combi.status = "lower"
  /\ combi.lb + 1 < combi.ub
  /\ \E res \in Results(combi, middle(combi)) :
       \E delta \in Conflicts(next_limit(combi.frames[middle(combi)].limit),
                              res) :
         Combined(lower_solved(solve(combi, middle(combi), res, delta),
                               middle(combi)))

\* 'print_solution (ub)' prints one line for each of the ub configurations
\* of the frame.
PrintMinimum ==
  /\ combi.status = "lower"
  /\ combi.lb + 1 >= combi.ub
  /\ Combined([ combi EXCEPT !.status = "printed", !.printed = combi.ub ])

\* 'release_frames' in default mode: 'release_frame' on every frame.
release_frames(c) ==
  [ c EXCEPT !.status = "released",
             !.frames = [ k \in DOMAIN @ |-> [ @[k] EXCEPT !.released = TRUE ] ] ]

ReleaseFrames ==
  /\ combi.status = "printed"
  /\ Combined(release_frames(combi))

NextSearch ==
  \/ SearchTables
  \/ SolveUpper
  \/ SolveAgain
  \/ SkipFrame
  \/ DoubleUpper
  \/ SolveMiddle
  \/ PrintMinimum
  \/ ReleaseFrames

SpecSearch == InitSearch /\ [][NextSearch]_vars

\* The frames below k all have formulas that are not satisfiable.
Smallest(c, k) == \A j \in 2..(k - 1) : ~Satisfiable(c, j)

Positions(list, c) == { i \in DOMAIN list : list[i] = c }

\* The watch list of the literal ends, and each clause object in it is
\* stored, is there once and has the literal as one of its two watches.
WellLinked(m, lit) ==
  /\ Len(WatchList(m, lit)) <= MaxClauses
  /\ \A i \in DOMAIN WatchList(m, lit) :
       /\ WatchList(m, lit)[i] \in Stored(m)
       /\ Cardinality(Positions(WatchList(m, lit), WatchList(m, lit)[i])) = 1
       /\ \/ m.heap[WatchList(m, lit)[i]].literals[1] = lit
          \/ m.heap[WatchList(m, lit)[i]].literals[2] = lit

\* The clause object is in the watch lists of its first two literals, which
\* differ.
Watched(m, c) ==
  /\ Len(m.heap[c].literals) >= 2
  /\ m.heap[c].literals[1] # m.heap[c].literals[2]
  /\ Positions(WatchList(m, m.heap[c].literals[1]), c) # { }
  /\ Positions(WatchList(m, m.heap[c].literals[2]), c) # { }

\* C22: between the calls of the API every stored clause is linked exactly
\* once into the watch list of its first literal and exactly once into the
\* watch list of its second literal, and is in no other watch list.
C22_WatchLists ==
  status = "ok" =>
    /\ \A lit \in 0..(size - 1) : WellLinked(Machine, lit)
    /\ \A c \in Stored(Machine) : Watched(Machine, c)

\* Two clauses remain stored and watched after a garbage collection.
C22_Witness ==
  /\ status = "ok"
  /\ collections >= 1
  /\ clauses = 2
  /\ \E lit \in 0..(size - 1) : Len(WatchList(Machine, lit)) = 2

\* C23: after every operation of the API returns the trail is empty, also
\* when an added unit clause led to a conflict in propagation.
C23_TrailEmpty == status = "ok" => Len(trail) = 0

\* C24: after every operation of the API returns every mark is zero, also
\* when the scan of the clause stopped early at a true or a clashing
\* literal, when the clause repeated a literal and when the checker is
\* inconsistent.
C24_MarksZero == status = "ok" => \A lit \in DOMAIN marks : marks[lit] = 0

\* The one clause committed so far was found trivial after its first
\* literal was marked: nothing is stored, assigned or counted as deleted.
C24_Witness ==
  /\ status = "ok"
  /\ original = 1
  /\ learned = 0
  /\ deleted = 0
  /\ clauses = 0
  /\ new_units = 0
  /\ ~inconsistent
  /\ size >= 2
  /\ Len(clause) = 0
  /\ \A lit \in DOMAIN marks : marks[lit] = 0

\* The values of each literal and its negation are 1 and -1 or both 0.
Balanced(m) ==
  \A lit \in DOMAIN m.values :
    /\ m.values[lit] \in { -1, 0, 1 }
    /\ m.values[lit] + m.values[NOT(lit)] = 0

\* The checker where check_clause_implied has propagated the negation of
\* the temporary clause and not yet backtracked.
Propagated == implied_loop(Machine, 1).m

\* C25: the values of a literal and of its negation sum to zero in every
\* state between the calls, where the propagation for a learned clause has
\* ended and after backtracking from there.
C25_ValuesBalanced ==
  /\ Balanced(Machine)
  /\ (status = "ok" /\ ~inconsistent) =>
       /\ Balanced(Propagated)
       /\ Balanced(checker_backtrack(Propagated))

\* The check of the temporary clause has assigned two literals or more,
\* over a root level at which a unit is assigned, and backtracking returns
\* to the values of the root level.
C25_Witness ==
  /\ status = "ok"
  /\ ~inconsistent
  /\ \E lit \in DOMAIN values : values[lit] = 1
  /\ Len(Propagated.trail) >= 2
  /\ Balanced(Propagated)
  /\ checker_backtrack(Propagated).values = values

\* The clause objects reachable through the watch lists.
Linked(m) ==
  UNION { { WatchList(m, lit)[i] : i \in DOMAIN WatchList(m, lit) } :
          lit \in 0..(m.size - 1) }

\* The counter is the number of the clause objects reachable, which are the
\* stored ones; none is left once the checker is released.
Counted ==
  /\ clauses >= 0
  /\ status = "ok" =>
       /\ Linked(Machine) = Stored(Machine)
       /\ clauses = Cardinality(Linked(Machine))
  /\ status \in { "released" } \cup LeakMessages =>
       /\ Stored(Machine) = { }
       /\ clauses = 0

\* A call that leaves the counter larger has stored a clause object, and
\* one that leaves it smaller has freed one.
CountedStep ==
  /\ clauses' > clauses => \E c \in DOMAIN heap : heap[c].free /\ ~heap'[c].free
  /\ clauses' < clauses =>
       /\ Cardinality({ c \in DOMAIN heap : ~heap[c].free /\ heap'[c].free })
            >= clauses - clauses'
       /\ \/ DeleteCommit
          \/ collections' = collections + 1
          \/ ReleaseStep

\* C26: between the calls the counter 'clauses' is the number of clause
\* objects reachable through the watch lists; it grows only when a clause
\* object is stored, shrinks only when one is freed by a delete, a garbage
\* collection or the release, and is never negative.
C26_ClausesCounted == []Counted /\ [][CountedStep]_vars

\* One clause is left reachable after a garbage collection freed another.
C26_Witness ==
  /\ status = "ok"
  /\ collected = 1
  /\ clauses = 1
  /\ Cardinality(Linked(Machine)) = 1

\* The checker at the test for a garbage collection at the end of
\* checker_add_clause, for the temporary clause of checker m.
AtCollection(m) ==
  decrement_wait(
    add_by_non_false(
      [ checker_trivial_clause(m).m EXCEPT
          !.clause = move_non_false(checker_trivial_clause(m).m.clause,
                                    m.values, 1, 1, 0, INVALID).clause ],
      move_non_false(checker_trivial_clause(m).m.clause, m.values, 1, 1, 0,
                     INVALID).non_false,
      move_non_false(checker_trivial_clause(m).m.clause, m.values, 1, 1, 0,
                     INVALID).unit))

\* The add of the temporary clause of checker m runs a garbage collection.
Collects(m) ==
  /\ m.status = "ok"
  /\ ~m.inconsistent
  /\ ~checker_trivial_clause(m).trivial
  /\ AtCollection(m).status = "ok"
  /\ ~AtCollection(m).inconsistent
  /\ AtCollection(m).new_units # 0
  /\ AtCollection(m).wait = 0

\* The clause object has a literal that is true.
RootSatisfied(m, c) ==
  \E l \in Lits(m.heap[c].literals) : m.values[l] = 1

\* The garbage collection takes checker 'pre' to checker 'post'.
Collected(pre, post) ==
  /\ Stored(post) = { c \in Stored(pre) : ~RootSatisfied(pre, c) }
  /\ \A c \in Stored(post) : post.heap[c].literals = pre.heap[c].literals
  /\ post.values = pre.values
  /\ \A lit \in 0..(post.size - 1) : WellLinked(post, lit)
  /\ \A c \in Stored(post) : Watched(post, c) /\ ~RootSatisfied(post, c)
  /\ post.collected
       = pre.collected + Cardinality(Stored(pre) \ Stored(post))
  /\ post.clauses = pre.clauses - Cardinality(Stored(pre) \ Stored(post))
  /\ post.collections = pre.collections + 1

\* C27: a garbage collection frees exactly the stored clauses with a true
\* literal and keeps the others with their literals; afterwards no stored
\* clause is satisfied, each is linked in the watch lists of its two
\* watches, and 'collected' and 'clauses' have changed by the number freed.
C27_CollectsSatisfied ==
  Collects(Machine) =>
    Collected(AtCollection(Machine),
              checker_garbage_collection(AtCollection(Machine)))

\* The add of the temporary clause runs a garbage collection that frees a
\* clause and keeps another.
C27_Witness ==
  /\ Collects(Machine)
  /\ \E c \in Stored(AtCollection(Machine)) :
       RootSatisfied(AtCollection(Machine), c)
  /\ \E c \in Stored(AtCollection(Machine)) :
       ~RootSatisfied(AtCollection(Machine), c)

\* The step commits a clause that is not trivial, as original or learned.
AddCommit == (OriginalCommit \/ LearnedCommit) /\ ~Trivial(Machine)

\* A unit was added since the last garbage collection, or the temporary
\* clause is one; and the wait is over with this add.
CollectionDue ==
  /\ new_units > 0 \/ Cardinality(NonFalse(Machine)) = 1
  /\ wait_to_collect_satisfied_clauses <= 1

\* C28 as stated: a garbage collection runs only in the add of an original
\* clause that is a unit.
C28_AsClaimed ==
  [][collections' # collections =>
       /\ OriginalCommit
       /\ ~Trivial(Machine)
       /\ Cardinality(NonFalse(Machine)) = 1]_vars

CollectionStep ==
  /\ collections' # collections =>
       /\ collections' = collections + 1
       /\ AddCommit
       /\ ~inconsistent'
       /\ CollectionDue
       /\ new_units' = 0
  /\ (AddCommit /\ status' = "ok" /\ ~inconsistent' /\ CollectionDue)
       => collections' = collections + 1

\* C28: a garbage collection runs only at the end of the add of a clause
\* that is not trivial, original or learned, which leaves the checker
\* consistent, and then exactly when the wait is over with this add and a
\* unit was added since the last collection, by this add or an earlier one;
\* no other call runs one.
C28_CollectionTrigger == [][CollectionStep]_vars

\* The add of the temporary clause, which has two literals that are not
\* false, runs a garbage collection for a unit added before.
C28_Witness ==
  /\ Collects(Machine)
  /\ new_units > 0
  /\ Cardinality(NonFalse(Machine)) >= 2
  /\ checker_add_original_clause(Machine).collections = collections + 1

\* n times i or MAX_SIZE_T, whichever is smaller, by doubling and adding
\* with no number beyond MAX_SIZE_T.
SaturatedSum(a, b) == IF a > MAX_SIZE_T - b THEN MAX_SIZE_T ELSE a + b

RECURSIVE SaturatedProduct(_, _)
SaturatedProduct(n, i) ==
  IF i = 0 THEN 0
  ELSE IF i % 2 = 0
  THEN SaturatedSum(SaturatedProduct(n, i \div 2),
                    SaturatedProduct(n, i \div 2))
  ELSE SaturatedSum(SaturatedSum(SaturatedProduct(n, i \div 2),
                                 SaturatedProduct(n, i \div 2)), n)

\* Numbers of garbage collections: the first ones and those around the
\* point from which the wait is MAX_SIZE_T.
CollectionCounts ==
  1..4 \cup { (MAX_SIZE_T \div collection_interval) + d : d \in { -1, 0, 1, 2 } }
       \cup { MAX_SIZE_T - 1, MAX_SIZE_T }

\* The checker after the scheduling at the end of its n-th collection.
Scheduled(n) ==
  checker_schedule_next_garbage_collection(
    [ Machine EXCEPT !.collections = n ])

Backoff ==
  /\ wait_to_collect_satisfied_clauses \in 0..MAX_SIZE_T
  /\ \A n \in CollectionCounts :
       /\ Scheduled(n).wait = SaturatedProduct(n, collection_interval)
       /\ Scheduled(n).new_units = 0

BackoffStep ==
  /\ collections' # collections =>
       /\ wait_to_collect_satisfied_clauses'
            = SaturatedProduct(collections', collection_interval)
       /\ new_units' = 0
  /\ (AddCommit /\ status' = "ok" /\ collections' = collections) =>
       wait_to_collect_satisfied_clauses'
         = IF wait_to_collect_satisfied_clauses = 0 THEN 0
           ELSE wait_to_collect_satisfied_clauses - 1
  /\ ~AddCommit =>
       wait_to_collect_satisfied_clauses' = wait_to_collect_satisfied_clauses
  /\ (collections' = collections /\ wait_to_collect_satisfied_clauses > 1)
       => wait_to_collect_satisfied_clauses' > 0

\* C29: the n-th garbage collection leaves the wait at n times the interval
\* or at the maximum of size_t, whichever is smaller, and new_units at 0;
\* each add of a clause that is not trivial takes one from the wait unless
\* it is 0, and no other call changes it.
C29_Backoff == []Backoff /\ [][BackoffStep]_vars

\* The add after the first garbage collection has taken one from the wait,
\* and the wait of a later collection would be the maximum of size_t.
C29_Witness ==
  /\ status = "ok"
  /\ collections = 1
  /\ new_units = 0
  /\ wait_to_collect_satisfied_clauses = collection_interval - 1
  /\ Scheduled((MAX_SIZE_T \div collection_interval) + 1).wait = MAX_SIZE_T
  /\ Scheduled(MAX_SIZE_T \div collection_interval).wait < MAX_SIZE_T

\* No watch list and no link of a stored clause object leads to a clause
\* object that is freed.
NoDangling(m) ==
  /\ \A lit \in 0..(m.size - 1) : m.watches[lit] \in Stored(m) \cup { 0 }
  /\ \A c \in Stored(m) :
       \A j \in 1..2 : m.heap[c].next[j] \in Stored(m) \cup { 0 }

\* With the second watches disconnected each stored clause object is in
\* the list of its first literal, once, and in no other list: a walk along
\* the lists visits each stored clause object once and no freed one.
FirstOnly(m) ==
  /\ NoDangling(m)
  /\ \A lit \in 0..(m.size - 1) :
       /\ Len(WatchList(m, lit)) <= MaxClauses
       /\ \A i \in DOMAIN WatchList(m, lit) :
            /\ WatchList(m, lit)[i] \in Stored(m)
            /\ m.heap[WatchList(m, lit)[i]].literals[1] = lit
            /\ Cardinality(Positions(WatchList(m, lit),
                                     WatchList(m, lit)[i])) = 1
  /\ \A c \in Stored(m) :
       Positions(WatchList(m, m.heap[c].literals[1]), c) # { }

\* The two phases of a garbage collection of checker m: the lists walked by
\* the flush and, after it, by the reconnection hold stored clause objects
\* only, each once.
TwoPhases(m) ==
  /\ Stored(checker_disconnect_all_second_watches(m)) = Stored(m)
  /\ FirstOnly(checker_disconnect_all_second_watches(m))
  /\ FirstOnly(checker_flush_all_satisfied_clauses(
                 checker_disconnect_all_second_watches(m)))

\* The release of checker m walks lists that hold each stored clause object
\* once, and frees and counts each once.
ReleasedOnce(m) ==
  /\ FirstOnly(checker_disconnect_all_second_watches(m))
  /\ Stored(checker_release_all_clauses(m)) = { }
  /\ checker_release_all_clauses(m).clauses
       = m.clauses - Cardinality(Stored(m))

\* C30: every clause object is freed once, by its delete, a garbage
\* collection or the release, and after it is unlinked from the lists
\* still walked; no walk along a watch list comes to a freed clause object.
C30_FreedOnce ==
  /\ status = "ok" => NoDangling(Machine) /\ ReleasedOnce(Machine)
  /\ Collects(Machine) => TwoPhases(AtCollection(Machine))

\* A clause was deleted and freed, and the release frees the one clause
\* that is left.
C30_Witness ==
  /\ status = "ok"
  /\ deleted = 1
  /\ Cardinality(Stored(Machine)) = 1
  /\ Stored(checker_release_all_clauses(Machine)) = { }

(***************************************************************************)
(* The assignment across the calls of the checker.                         *)
(***************************************************************************)
\* The checker after the implication check of the temporary clause, where
\* checker_add_learned_clause goes on to add it.
Checked == check_clause_implied([ Machine EXCEPT !.learned = @ + 1 ])

\* The check of the temporary clause, where it does not abort, leaves the
\* values and the empty trail it found.
CheckRestores ==
  (status = "ok" /\ ~inconsistent /\ Checked.status = "ok") =>
    /\ Checked.values = values
    /\ Checked.trail = << >>
    /\ trail = << >>

\* No call but the release unassigns or flips a literal.
RootKept ==
  status' = "ok" =>
    \A lit \in DOMAIN values : values[lit] # 0 => values'[lit] = values[lit]

\* C31: the implication check of a learned clause leaves the assignment as
\* it found it, however it ended, and no add, learned check or delete
\* unassigns a literal that is assigned between the calls.
C31_CheckRestoresAssignment == []CheckRestores /\ [][RootKept]_vars

\* The check of the temporary clause assigned two literals or more over an
\* assigned unit, ended with a conflict and restored the values.
C31_Witness ==
  /\ status = "ok"
  /\ ~inconsistent
  /\ \E lit \in DOMAIN values : values[lit] = 1
  /\ Len(Propagated.trail) >= 2
  /\ implied_loop(Machine, 1).failed
  /\ \A i \in 1..Len(clause) : values[clause[i]] <= 0
  /\ Checked.status = "ok"
  /\ Checked.values = values

\* The checker with its temporary clause discarded and nothing else changed.
Discarded == [ Machine EXCEPT !.clause = << >> ]

\* On an inconsistent checker the three commits discard the temporary
\* clause and do nothing else, and the release passes the leak check.
Absorbed ==
  (status = "ok" /\ inconsistent) =>
    /\ checker_add_original_clause(Machine) = Discarded
    /\ checker_add_learned_clause(Machine) = Discarded
    /\ checker_delete_clause(Machine) = Discarded
    /\ checker_release(Machine).status = "released"

\* A call on an inconsistent checker leaves it inconsistent, does not
\* abort, and changes no counter, no stored clause and no value or watch
\* list of a literal the checker has.
AbsorbedStep ==
  inconsistent =>
    /\ inconsistent'
    /\ status' \in { "ok", "released" }
    /\ status' = "ok" =>
         /\ << original', learned', deleted', collected', collections',
               clauses', new_units',
               wait_to_collect_satisfied_clauses' >>
              = << original, learned, deleted, collected, collections,
                   clauses, new_units, wait_to_collect_satisfied_clauses >>
         /\ heap' = heap
         /\ \A lit \in DOMAIN values :
              values'[lit] = values[lit] /\ watches'[lit] = watches[lit]

\* C32: once the checker is inconsistent it stays so; every later add of an
\* original or learned clause and every delete only discards the temporary
\* clause, without an abort, and the release does not fail the leak check.
C32_InconsistentAbsorbs == []Absorbed /\ [][AbsorbedStep]_vars

\* An inconsistent checker with leak checking enabled, a stored clause
\* that is not satisfied, and a temporary clause that is not stored.
C32_Witness ==
  /\ status = "ok"
  /\ inconsistent
  /\ leak_checking
  /\ Len(clause) > 0
  /\ SameSet(Machine) = { }
  /\ \E c \in Stored(Machine) : ~RootSatisfied(Machine, c)
  /\ checker_release(Machine).remained > 0
  /\ checker_release(Machine).status = "released"

\* The literals of the clause object that are false, and those unassigned.
FalseIn(m, c) == { l \in Lits(m.heap[c].literals) : m.values[l] < 0 }

UnassignedIn(m, c) == { l \in Lits(m.heap[c].literals) : m.values[l] = 0 }

\* A watch of the clause object is false only if the other watch is true.
WatchesPropagated(m, c) ==
  /\ m.values[m.heap[c].literals[1]] < 0 => m.values[m.heap[c].literals[2]] > 0
  /\ m.values[m.heap[c].literals[2]] < 0 => m.values[m.heap[c].literals[1]] > 0

\* C33: between the calls on a consistent checker no stored clause has all
\* its literals false, none has one unassigned literal and all others
\* false, and none has a false watch unless its other watch is true.
C33_RootPropagated ==
  (status = "ok" /\ ~inconsistent) =>
    \A c \in Stored(Machine) :
      /\ FalseIn(Machine, c) # Lits(heap[c].literals)
      /\ ~(/\ Cardinality(UnassignedIn(Machine, c)) = 1
           /\ FalseIn(Machine, c) \cup UnassignedIn(Machine, c)
                = Lits(heap[c].literals))
      /\ WatchesPropagated(Machine, c)

\* A stored clause has a false watch and a true one after a unit was
\* propagated.
C33_Witness ==
  /\ status = "ok"
  /\ ~inconsistent
  /\ \E c \in Stored(Machine) :
       /\ values[heap[c].literals[1]] < 0 \/ values[heap[c].literals[2]] < 0
       /\ WatchesPropagated(Machine, c)

(***************************************************************************)
(* A checker that collects garbage against one that never does.            *)
(***************************************************************************)
\* The clauses of the callers compared.
TransparentClauses ==
  { << -3 >>, << -1, 2 >>, << 2, 1 >>, << -2 >>, << -3, 1 >>, << 1, 2, 3 >> }

\* The callers enable leak checking, add three original clauses, add, check
\* or delete a fourth, and release the checker.
TransparentScripts ==
  { Leak(Pass(a, "original") \o Pass(b, "original") \o Pass(c, "original")
           \o Pass(d, commit)) :
      a \in TransparentClauses, b \in TransparentClauses,
      c \in TransparentClauses, d \in TransparentClauses,
      commit \in { "original", "learned", "delete" } }

InitTransparent ==
  /\ script \in TransparentScripts
  /\ pc = 0
  /\ collection_interval \in 2..MaxInterval
  /\ checker_init
  /\ OnlyChecker

SpecTransparent == InitTransparent /\ [][Next]_vars

\* The checker of checker_init whose first garbage collection is as far
\* away as the code has it: no caller above reaches it.
NeverCollecting ==
  [ size |-> 0, inconsistent |-> FALSE, marks |-> << >>, values |-> << >>,
    watches |-> << >>, trail |-> << >>, clause |-> << >>, new_units |-> 0,
    wait |-> GARBAGE_COLLECTION_INTERVAL, original |-> 0, learned |-> 0,
    deleted |-> 0, collected |-> 0, collections |-> 0, clauses |-> 0,
    remained |-> 0, leak_checking |-> FALSE,
    heap |-> [ c \in 1..MaxClauses |-> FreeClause ], status |-> "ok" ]

\* The checker m after the call, which a checker that has aborted or is
\* released does not take.
Called(m, call) ==
  IF m.status # "ok" THEN m
  ELSE IF call[1] = "literal" THEN checker_add_literal(m, call[2])
  ELSE IF call[1] = "original" THEN checker_add_original_clause(m)
  ELSE IF call[1] = "learned" THEN checker_add_learned_clause(m)
  ELSE IF call[1] = "delete" THEN checker_delete_clause(m)
  ELSE IF call[1] = "leak" THEN checker_enable_leak_checking(m)
  ELSE checker_release(m)

RECURSIVE Replay(_, _, _)
Replay(m, calls, i) ==
  IF i > Len(calls) THEN m ELSE Replay(Called(m, calls[i]), calls, i + 1)

\* The checker that never collects, after the calls made so far.
Reference == Replay(NeverCollecting, SubSeq(script, 1, pc), 1)

\* The checker that never collects has memory for its clauses.
Comparable == Reference.status # "out-of-memory"

\* C34 as stated: the two checkers abort at the same calls with the same
\* message and have the same values and the same inconsistent flag.
C34_AsClaimed ==
  Comparable =>
    /\ status = Reference.status
    /\ inconsistent = Reference.inconsistent
    /\ values = Reference.values

\* C34: a checker that collects satisfied clauses and one that never does
\* abort at the same calls with the same message, the leak check of the
\* release included, have the same inconsistent flag, and have the same
\* values as long as they are consistent.
C34_TransparentWhileConsistent ==
  Comparable =>
    /\ status = Reference.status
    /\ inconsistent = Reference.inconsistent
    /\ DOMAIN values = DOMAIN Reference.values
    /\ ~inconsistent => values = Reference.values
    /\ status # "ok" => remained = Reference.remained

\* The collecting checker has freed a clause that the other one still
\* stores, and both are released with the same verdict.
C34_Witness ==
  /\ status \in { "released" } \cup LeakMessages
  /\ collected > 0
  /\ Reference.collected = 0
  /\ Reference.status = status
  /\ Reference.deleted + Reference.learned > 0

(***************************************************************************)
(* The arrays of the checker.                                              *)
(***************************************************************************)
RECURSIVE PowerOfTwo(_)
PowerOfTwo(n) == n = 1 \/ (n > 1 /\ n % 2 = 0 /\ PowerOfTwo(n \div 2))

\* The literals the callers may pass, and some beyond them.
ImportedLiterals == { e \in -5..5 : e # 0 }

\* Checker 'post' is checker 'pre' after checker_add_literal of 'elit'.
Imported(pre, post, elit) ==
  /\ post.size = 0 \/ PowerOfTwo(post.size)
  /\ post.size >= pre.size
  /\ post.size > 2 * abs(elit) - 1
  /\ Len(post.clause) = Len(pre.clause) + 1
  /\ checker_export(post.clause[Len(post.clause)]) = elit
  /\ post.clause[Len(post.clause)] < post.size
  /\ NOT(post.clause[Len(post.clause)]) < post.size
  /\ DOMAIN post.marks = 0..(post.size - 1)
  /\ DOMAIN post.values = 0..(post.size - 1)
  /\ DOMAIN post.watches = 0..(post.size - 1)
  /\ \A lit \in 0..(pre.size - 1) :
       /\ post.marks[lit] = pre.marks[lit]
       /\ post.values[lit] = pre.values[lit]
       /\ post.watches[lit] = pre.watches[lit]
  /\ \A lit \in pre.size..(post.size - 1) :
       /\ post.marks[lit] = 0
       /\ post.values[lit] = 0
       /\ post.watches[lit] = 0

Sized ==
  /\ size = 0 \/ PowerOfTwo(size)
  /\ DOMAIN values = 0..(size - 1)
  /\ \A i \in 1..Len(clause) : clause[i] < size /\ NOT(clause[i]) < size
  /\ status = "ok" =>
       \A elit \in ImportedLiterals :
         Imported(Machine, checker_add_literal(Machine, elit), elit)

\* C35: the size of the arrays is 0 or a power of two and never shrinks;
\* after checker_add_literal it holds the literal and its negation, the
\* cells the arrays had are unchanged and the new cells are zero.
C35_ArraysGrow == []Sized /\ [][size' >= size]_vars

\* The arrays hold an assigned literal and a watched clause, and the import
\* of a literal of a new variable doubles them.
C35_Witness ==
  /\ status = "ok"
  /\ size = 4
  /\ \E lit \in 0..3 : values[lit] # 0
  /\ \E lit \in 0..3 : watches[lit] # 0
  /\ checker_add_literal(Machine, 3).size = 8
  /\ checker_add_literal(Machine, -5).size = 16

(***************************************************************************)
(* The numbering of the Tseitin variables by 'parse': files of XOR clauses *)
(* whose variables and whose maximum variable of the header reach INT_MAX. *)
(***************************************************************************)
TseitinItems ==
  { Item(<< "x", " ", "1", " ", "-", "2", " ", "0", "\n" >>,
         << 1, -2, 0 >>, TRUE),
    Item(<< "x", "1", " ", "2", " ", "-", "1", " ", "-", "2", " ", "1",
            " ", "0", "\n" >>,
         << 1, 2, -1, -2, 1, 0 >>, TRUE),
    Item(<< "x", " " >> \o Decimal(INT_MAX)
           \o << " ", "1", " ", "2", " ", "1", " ", "2", " ", "0", "\n" >>,
         << INT_MAX, 1, 2, 1, 2, 0 >>, TRUE),
    Item(<< "c", " ", "9", "\n" >>, << >>, FALSE),
    Item(<< "1", " ", "0", "\r", "\n" >>, << 1, 0 >>, FALSE) }

TseitinSources ==
  { Source("tseitin", force, build, "x", V, Decimal(Zeros(items)), items) :
      force \in BOOLEAN, build \in Builds,
      V \in { << "2" >>, Decimal(INT_MAX) },
      items \in UNION { [ 1..n -> TseitinItems ] : n \in 0..MaxItems } }

InitTseitin ==
  /\ CheckerIdle
  /\ \E s \in TseitinSources : parser = parse_start(s)
  /\ encoder = NotRunning
  /\ sorter = NotRunning
  /\ generator = NotRunning
  /\ combi = NotRunning

\* The parser on the files of 'TseitinSources'.
SpecTseitin == InitTseitin /\ [][NextParse]_vars

\* The variables that occur in the file.
InputVariables ==
  UNION { { abs(parser.source.items[i].ints[j]) :
              j \in DOMAIN parser.source.items[i].ints } :
            i \in DOMAIN parser.source.items }
    \ { 0 }

\* The number the first Tseitin variable follows: the maximum variable of
\* the header, in forced parsing mode the largest variable found.
TseitinBase ==
  IF parser.force THEN parser.parsed_variables ELSE parser.variables

\* The number of variables the encoding of an XOR clause of k literals
\* introduces.
TseitinCount(k) == IF k <= 4 THEN 0 ELSE (k - 3) \div 2

Numbered ==
  /\ \A i \in DOMAIN parser.logged :
       /\ parser.logged[i] = TseitinBase + i
       /\ abs(parser.logged[i]) \notin InputVariables
  /\ \A i, j \in DOMAIN parser.logged :
       abs(parser.logged[i]) = abs(parser.logged[j]) => i = j

NumberedStep ==
  IF parser.force
  THEN parser'.logged # parser.logged
         => parser.status = "parsing" /\ parser'.status = "parsed"
  ELSE Len(parser'.logged) =
         Len(parser.logged)
           + IF parser.status = "parsing"
                  /\ parser'.parsed_xors = parser.parsed_xors + 1
             THEN TseitinCount(Len(parser.xors)
                                 - parser.offset_of_encoded_xors)
             ELSE 0

\* C36: the Tseitin variables that 'parse' introduces for the XOR clauses
\* differ from every variable of the file and from each other; they are
\* numbered one after the other from the maximum variable of the header
\* plus one, each XOR clause being encoded by the step that reads its zero,
\* and in forced parsing mode from the largest variable found plus one, by
\* the step that follows the end of the file.
C36_TseitinFresh == []Numbered /\ [][NumberedStep]_vars

(***************************************************************************)
(* The binary search of 'main' on lists of two options, with frames up to  *)
(* MaxBisect.                                                              *)
(***************************************************************************)
MaxBisect == 8

BisectLists == { l \in SearchLists : l.n = 2 }

InitBisect ==
  /\ CheckerIdle
  /\ parser = NotRunning
  /\ encoder = NotRunning
  /\ sorter = NotRunning
  /\ generator = NotRunning
  /\ \E l \in BisectLists, weak \in BOOLEAN, unsorted \in BOOLEAN :
       combi = [ status |-> "init", n |-> l.n, k |-> 0, weak |-> weak,
                 unsorted |-> unsorted, incompatible |-> l.incompatible,
                 requires |-> l.requires, needs |-> { }, needed |-> << >>,
                 valid |-> { }, encoded |-> FALSE, nvars |-> 0,
                 clauses |-> << >>,
                 frames |-> [ k \in 2..MaxBisect |-> new_frame ],
                 formulas |-> << >>, ub |-> 0, lb |-> 0, printed |-> 0 ]

\* The statements of 'main' follow each other, and every call of the
\* solver returns: it runs under the conflict limit of its frame.
SpecBisect ==
  /\ InitBisect
  /\ [][NextSearch]_vars
  /\ WF_vars(SolveMiddle)
  /\ WF_vars(PrintMinimum)

\* The binary search runs or has ended.
Bisecting == combi.status \in { "lower", "printed" }

\* What 'print_solution' asserts of the frame of the upper bound.
UpperSatisfied ==
  Bisecting =>
    /\ 2 <= combi.lb
    /\ combi.lb <= combi.ub
    /\ combi.frames[combi.ub].encoded
    /\ ~combi.frames[combi.ub].released
    /\ combi.frames[combi.ub].status = SATISFIABLE
    /\ combi.status = "printed" =>
         combi.printed = combi.ub /\ combi.lb + 1 >= combi.ub

\* A round of the binary search: the bounds after it, by the status of the
\* frame in the middle.
BisectStep ==
  (combi.status = "lower" /\ combi'.status = "lower") =>
    /\ combi.lb < middle(combi)
    /\ middle(combi) < combi.ub
    /\ IF combi'.frames[middle(combi)].status = SATISFIABLE
       THEN combi'.ub = middle(combi) /\ combi'.lb = 2
       ELSE combi'.ub = combi.ub /\ combi'.lb = middle(combi)

\* C37: the binary search of gencombi ends, after finitely many calls of
\* 'solve', with lb + 1 >= ub and prints the frame of ub; each round sets
\* ub to the middle and lb to 2 when the frame in the middle is satisfiable
\* and lb to the middle otherwise; the frame of ub is encoded, not released
\* and has the status SATISFIABLE throughout, also when it is printed.
C37_BisectTerminates ==
  /\ []UpperSatisfied
  /\ [][BisectStep]_vars
  /\ (combi.status = "lower") ~> (combi.status = "printed")

\* The upper bound 8 was lowered to 6 by a round that started from the
\* lower bound 5 and set it back to 2; the frames 4 and 5 were then solved
\* without a result, frame 5 for the second time, and frame 6 is printed.
C37_Witness ==
  /\ combi.status = "printed"
  /\ combi.printed = 6
  /\ combi.lb = 5
  /\ combi.frames[8].status = SATISFIABLE
  /\ combi.frames[4].status = UNKNOWN
  /\ combi.frames[5].status = UNKNOWN

(***************************************************************************)
(* The order of the configurations under the sorting clauses.              *)
(***************************************************************************)
\* The options enabled in configuration i by the values 'a' of the
\* variables 'option[i][p]'.
Configuration(c, a, i) == { p \in 1..c.n : option(c, i, p) \in a }

\* The variables 'sorted[i][p]'.
SortedVariables(c) == { sorted(c, i, p) : i \in 2..c.k, p \in 2..c.n }

\* Configuration A lies before configuration B: the first option enabled in
\* only one of them is enabled in A.
Before(A, B) ==
  \E d \in A \ B : \A e \in 1..(d - 1) : e \in A <=> e \in B

\* Some values of the variables 'sorted[i][p]' satisfy the sorting clauses
\* together with the values 'a' of the options.
SortingExtends(c, a) ==
  \E s \in SUBSET SortedVariables(c) : Satisfies(a \cup s, encode_sorting(c))

\* The variables 'sorted[i][p]' occur in the sorting clauses only.
SortedApart(c) ==
  \A cl \in ClauseSets(encode_pairs(c) \o encode_required(c)
                         \o encode_positive(c) \o encode_negative(c)) :
    \A l \in cl : abs(l) \notin SortedVariables(c)

\* The frame is one with sorting clauses.
SortedFrame == combi.status # "init" /\ combi.status # "exit 1" /\ ~combi.unsorted

\* C38 as stated: the values of the options that can be extended to the
\* sorting clauses are those with every configuration before or equal to
\* the next one.
C38_AsClaimed ==
  SortedFrame =>
    \A a \in SUBSET (1..(combi.k * combi.n)) :
      SortingExtends(combi, a)
        <=> \A i \in 2..combi.k :
              \/ Before(Configuration(combi, a, i - 1),
                        Configuration(combi, a, i))
              \/ Configuration(combi, a, i - 1) = Configuration(combi, a, i)

\* C38: with sorting clauses, the values of the options that some values of
\* the variables 'sorted[i][p]' extend to the sorting clauses are exactly
\* those in which every configuration lies strictly before the next one in
\* the lexicographic order of the options (the first option in which they
\* differ is enabled in the earlier one); the sorted variables occur in no
\* other clause, and the configurations printed are in that strict order.
C38_SortingStrict ==
  SortedFrame =>
    /\ \A a \in SUBSET (1..(combi.k * combi.n)) :
         SortingExtends(combi, a)
           <=> \A i \in 2..combi.k :
                 Before(Configuration(combi, a, i - 1),
                        Configuration(combi, a, i))
    /\ SortedApart(combi)
    /\ combi.status = "printed" =>
         \A i \in 2..combi.k : Before(combi.configs[i - 1], combi.configs[i])

\* Three configurations of two options are printed in their order; the
\* first two differ in their last option only.
C38_Witness ==
  /\ SortedFrame
  /\ combi.status = "printed"
  /\ combi.k = 3
  /\ combi.configs[1] = { 1, 2 }
  /\ combi.configs[2] = { 1 }
  /\ combi.configs[3] = { 2 }

(***************************************************************************)
(* 'invalid.h' as gencombi.c reads it: the lines written by the generator  *)
(* follow the pairs of 'incompatible' written by hand, whose last pair      *)
(* starts with "--logging", before every "--no-..." option.  The options   *)
(* of the model are the options of the files without their prefix          *)
(* "--no-", which all of them share, so 'strcmp' orders them alike.        *)
(***************************************************************************)
\* 'check_incompatible' on the pairs of 'invalid.h': the message it dies
\* with at the first pair it rejects, or "checked".
RECURSIVE check_incompatible_from(_, _)
check_incompatible_from(lines, i) ==
  IF i > Len(lines) THEN "checked"
  ELSE IF strcmp(lines[i][1], lines[i][2]) >= 0
  THEN "unsorted incompatible pair"
  ELSE IF i > 1 /\ strcmp(lines[i - 1][1], lines[i][1]) > 0
  THEN "incompatible pair before"
  ELSE check_incompatible_from(lines, i + 1)

check_incompatible(lines) == check_incompatible_from(lines, 1)

\* C39: every 'invalid.h' the generator writes passes 'check_incompatible'
\* of gencombi: in each pair the first option is below the second by
\* 'strcmp', and the first options of the pairs do not decrease.
C39_InvalidPasses ==
  "invalid.h" \in generator.generated =>
    check_incompatible(generator.invalid_h) = "checked"

(***************************************************************************)
(* The signal handler of main.c.  The signals are the first MaxSignals of  *)
(* the macro SIGNALS, numbered from 1; the process is sent up to           *)
(* MaxDeliveries signals while it solves.  A handler installed by 'signal' *)
(* runs with its signal blocked, or ('sysv') with the default action put   *)
(* back for its signal: which of the two is left to the C library.  The    *)
(* statements the calls of 'catch_signal' execute are kept in 'log'.       *)
(***************************************************************************)
MaxSignals == 3

MaxDeliveries == 3

SIGNALS == << "SIGABRT", "SIGBUS", "SIGINT", "SIGSEGV", "SIGTERM" >>

Signals == 1..MaxSignals

\* The call of 'catch_signal' that runs: the last one entered.
Top(p) == p.stack[Len(p.stack)]

Logged(p, what, arg) ==
  [ p EXCEPT !.log = Append(@, [ id |-> Top(p).id, sig |-> Top(p).sig,
                                 what |-> what, arg |-> arg ]) ]

\* The running call goes on at 'at'.
At(p, at, k) ==
  [ p EXCEPT !.stack[Len(p.stack)].pc = at, !.stack[Len(p.stack)].k = k ]

\* The signal is blocked: a handler for it has not returned.
Blocked(p, sig) ==
  ~p.sysv /\ \E i \in DOMAIN p.stack : p.stack[i].sig = sig

\* The action of a signal that is not blocked.
deliver(p, sig) ==
  IF p.handler[sig] = "SIG_IGN" THEN p
  ELSE IF p.handler[sig] = "SIG_DFL"
  THEN [ p EXCEPT !.status = "killed", !.stack = << >> ]
  ELSE [ p EXCEPT !.stack = Append(@, [ id |-> p.calls + 1, sig |-> sig,
                                        pc |-> "test", k |-> 0 ]),
                  !.calls = @ + 1,
                  !.handler[sig] = IF p.sysv THEN "SIG_DFL" ELSE @ ]

\* 'raise (sig)', and a signal sent to the process.
raise(p, sig) ==
  IF Blocked(p, sig) THEN [ p EXCEPT !.pending = @ \cup { sig } ]
  ELSE deliver(p, sig)

\* The running call returns; its signal is delivered if it is pending.
returned(p) ==
  IF Top(p).sig \in p.pending
       /\ ~Blocked([ p EXCEPT !.stack = SubSeq(@, 1, Len(@) - 1) ], Top(p).sig)
  THEN deliver([ p EXCEPT !.stack = SubSeq(@, 1, Len(@) - 1),
                          !.pending = @ \ { Top(p).sig } ],
               Top(p).sig)
  ELSE [ p EXCEPT !.stack = SubSeq(@, 1, Len(@) - 1) ]

\* A handler that never returns early.
test_skipped(p) == At(Logged(p, "clear", 0), "set", 0)

\* 'if (caught_signal) return;'.
test(p) ==
  IF p.caught_signal # 0 THEN returned(Logged(p, "early", 0))
  ELSE At(Logged(p, "clear", 0), "set", 0)

\* 'caught_signal = sig;' and 'if (!quiet)'.
set(p) ==
  At([ Logged(p, "set", 0) EXCEPT !.caught_signal = Top(p).sig ],
     IF p.quiet THEN "reset" ELSE "print", IF p.quiet THEN 1 ELSE 0)

\* The lines printed with 'satch_statistics (solver)' between them.
statistics(p) == At(Logged(p, "statistics", 0), "reset", 1)

\* 'reset_signal_handler': 'signal (SIG, saved_SIG_handler)' for the next
\* of the signals.
reset_signal_handler(p) ==
  At([ Logged(p, "restore", Top(p).k) EXCEPT
         !.handler[Top(p).k] = p.saved[Top(p).k] ],
     IF Top(p).k < MaxSignals THEN "reset" ELSE "raise",
     IF Top(p).k < MaxSignals THEN Top(p).k + 1 ELSE 0)

\* 'raise (sig);' and the end of 'catch_signal'.
raised(p) == raise(At(Logged(p, "raise", 0), "return", 0), Top(p).sig)

\* The process after 'init_signal_handler', which saves the handlers it
\* finds: the default action, or a signal ignored by the caller.
InitSignal ==
  /\ CheckerIdle
  /\ encoder = NotRunning
  /\ sorter = NotRunning
  /\ generator = NotRunning
  /\ combi = NotRunning
  /\ \E quiet \in BOOLEAN, sysv \in BOOLEAN,
        saved \in [ Signals -> { "SIG_DFL", "SIG_IGN" } ] :
       parser = [ status |-> "solving", quiet |-> quiet, sysv |-> sysv,
                  caught_signal |-> 0, saved |-> saved,
                  handler |-> [ s \in Signals |-> "catch_signal" ],
                  stack |-> << >>, pending |-> { }, sent |-> 0, calls |-> 0,
                  log |-> << >> ]

Running(at) ==
  /\ parser.status = "solving"
  /\ parser.stack # << >>
  /\ Top(parser).pc = at

\* A signal is sent to the process.
Signalled ==
  /\ parser.status = "solving"
  /\ parser.sent < MaxDeliveries
  /\ \E sig \in Signals : Parsed(raise([ parser EXCEPT !.sent = @ + 1 ], sig))

CatchTest == Running("test") /\ Parsed(test(parser))

CatchSet == Running("set") /\ Parsed(set(parser))

CatchPrint == Running("print") /\ Parsed(statistics(parser))

CatchReset == Running("reset") /\ Parsed(reset_signal_handler(parser))

CatchRaise == Running("raise") /\ Parsed(raised(parser))

CatchReturn == Running("return") /\ Parsed(returned(parser))

NextSignal ==
  \/ Signalled
  \/ CatchTest
  \/ CatchSet
  \/ CatchPrint
  \/ CatchReset
  \/ CatchRaise
  \/ CatchReturn

SpecSignal == InitSignal /\ [][NextSignal]_vars

\* The statements a call of 'catch_signal' has executed.
Executed(id) ==
  LET of == SelectSeq(parser.log, LAMBDA e : e.id = id)
  IN [ i \in DOMAIN of |-> << of[i].what, of[i].arg >> ]

\* What the calls have done besides testing the flag.
Effects ==
  LET of == SelectSeq(parser.log, LAMBDA e : e.what \notin { "clear", "early" })
  IN [ i \in DOMAIN of |-> << of[i].what, of[i].arg >> ]

Restores == [ k \in Signals |-> << "restore", k >> ]

\* The statements of a call that finds the flag clear.
Acts ==
  << << "clear", 0 >>, << "set", 0 >> >>
    \o (IF parser.quiet THEN << >> ELSE << << "statistics", 0 >> >>)
    \o Restores \o << << "raise", 0 >> >>

IsPrefix(s, t) == Len(s) <= Len(t) /\ s = SubSeq(t, 1, Len(s))

\* The flag is set by the calls that set it, and stays set.
OneShot ==
  /\ parser.caught_signal = 0 <=>
       \A i \in DOMAIN parser.log : parser.log[i].what # "set"
  /\ \A i \in DOMAIN parser.log :
       /\ parser.log[i].what = "set"
       /\ \A j \in DOMAIN parser.log : j > i => parser.log[j].what # "set"
       => parser.caught_signal = parser.log[i].sig

\* A call that tests the flag after it was set returns at once.
EarlyOnceSet ==
  \A i, j \in DOMAIN parser.log :
    i < j /\ parser.log[i].what = "set"
      /\ parser.log[j].what \in { "clear", "early" }
    => parser.log[j].what = "early"

\* C40 as stated: one call of the handler, for the first signal it is given,
\* sets the flag, has the statistics printed, restores all saved handlers and
\* raises that signal again, in that order, and no other call of the handler
\* does any of these.
C40_AsClaimed ==
  /\ \A i, j \in DOMAIN parser.log :
       /\ parser.log[i].what \notin { "clear", "early" }
       /\ parser.log[j].what \notin { "clear", "early" }
       => parser.log[i].id = parser.log[j].id
  /\ IsPrefix(Effects,
              << << "set", 0 >>, << "statistics", 0 >> >>
                \o Restores \o << << "raise", 0 >> >>)

\* C40: a call of the handler that finds the flag clear sets it to its
\* signal, prints the statistics unless 'quiet' is set, restores the saved
\* handlers of all signals and raises its signal again, in that order; a call
\* that tests the flag after it was set returns without doing any of these;
\* the flag once set stays set.
C40_CatchSignal ==
  /\ OneShot
  /\ EarlyOnceSet
  /\ \A id \in 1..parser.calls :
       \/ Executed(id) = << << "early", 0 >> >>
       \/ IsPrefix(Executed(id), Acts)

\* One call has printed the statistics, restored the handlers and raised its
\* signal, and another has returned at once.
C40_Witness ==
  /\ ~parser.quiet
  /\ \E id \in 1..parser.calls : Executed(id) = Acts
  /\ \E id \in 1..parser.calls : Executed(id) = << << "early", 0 >> >>

====
